---- MODULE Spec2Model ----
(***************************************************************************)
(* DreamKG: query understanding and retrieval orchestration.               *)
(*                                                                         *)
(* The model follows src/services/query_service.py (QueryService),         *)
(* src/models/conversation_memory.py (ConversationMemory),                 *)
(* src/models/spatial_intelligence.py (SpatialIntelligence) and the        *)
(* request entry points of src/streamlit_app.py (OrganizationInfoApp).     *)
(*                                                                         *)
(* Conventions.                                                            *)
(*  - A query text is a sequence of lower-case word tokens; "?" is a token *)
(*    of its own that is written without a preceding blank.                *)
(*  - A Python value that may be None is a record with a `none` flag.      *)
(*  - Distances are integers in millionths of a mile (0.8 mi = 800000).    *)
(*  - The LLM, the graph backend and the geocoding provider are            *)
(*    environment choices (\E) of the action that calls them.              *)
(***************************************************************************)
EXTENDS Integers, Sequences, FiniteSets, TLC

(***************************************************************************)
(* Python None / optional values                                           *)
(***************************************************************************)
None == [none |-> TRUE]
Some(x) == [none |-> FALSE, v |-> x]
IsNone(o) == o.none

\* truthiness of an optional list or string: None and the empty one are falsy
Truthy(o) == (~o.none) /\ (o.v # <<>>)

(***************************************************************************)
(* Token helpers (regular expressions and `in` tests at word granularity)  *)
(***************************************************************************)
HasToken(q, t) == \E i \in 1..Len(q) : q[i] = t

HasPhrase(q, p) ==
    \E i \in 1..(Len(q) - Len(p) + 1) : SubSeq(q, i, i + Len(p) - 1) = p

StartsWith(q, p) == Len(q) >= Len(p) /\ SubSeq(q, 1, Len(p)) = p

EndsWith(q, p) == Len(q) >= Len(p) /\ SubSeq(q, Len(q) - Len(p) + 1, Len(q)) = p

RECURSIVE Concat(_)
Concat(ss) == IF ss = <<>> THEN <<>> ELSE Head(ss) \o Concat(Tail(ss))

\* tokens matched by [a-zA-Z]+ and by \d+
Digits == {"1", "2", "5"}
Punctuation == {"?", ","}
IsAlpha(t) == t \notin Digits /\ t \notin Punctuation
IsWordChar(t) == t \notin Punctuation

\* Character-level containment `kw in text` between single words: the proper
\* substrings that occur among the words of the modelled vocabulary.
ProperSubstrings ==
    { <<"close", "closest">>, <<"print", "printing">>, <<"book", "books">>,
      <<"hour", "hours">>, <<"mile", "miles">>, <<"mi", "miles">>,
      <<"computer", "computers">>, <<"area", "areas">>, <<"open", "opens">>,
      <<"meal", "meals">> }

WordContains(t, kw) == t = kw \/ <<kw, t>> \in ProperSubstrings

\* a pattern that starts without \b also matches at the end of a longer word
ProperSuffixes == { <<"at", "what">>, <<"in", "within">> }
EndsWithWord(t, w) == t = w \/ <<w, t>> \in ProperSuffixes

\* the words of the vocabulary that start with another one
ProperPrefixes == { <<"space", "spaces">> }
StartsWithWord(t, w) == t = w \/ <<w, t>> \in ProperPrefixes

\* `kw in query_lower` for a keyword that is one word
ContainsWord(q, kw) == \E i \in 1..Len(q) : WordContains(q[i], kw)

(***************************************************************************)
(* Program constants                                                       *)
(***************************************************************************)
MAX_CONVERSATION_HISTORY == 5
DEFAULT_DISTANCE_THRESHOLD == 800000
EXPANDED_DISTANCE_THRESHOLD == 1100000
NO_LIMIT_THRESHOLD == 999999

(***************************************************************************)
(* Bounds                                                                  *)
(***************************************************************************)
\* max_history argument given to ConversationMemory(max_history)
MaxHistory == 1
\* number of add_interaction / clear_memory calls in the memory-only runs
MaxCalls == 4
\* number of script runs with a prompt, over all sessions
MaxRequests == 2
\* number of browser sessions
NumSessions == 2
Sessions == 1..NumSessions

(***************************************************************************)
(* Inputs                                                                  *)
(***************************************************************************)
\* the query texts a user types
UserQueries ==
    { <<"free", "wifi", "near", "city", "hall">>,
      <<"food", "within", "5", "miles", "of", "city", "hall">>,
      <<"library", "near", "xyzzy">>,
      <<"closest", "library">>,
      <<"printing">>,
      <<"what", "are", "their", "hours", "?">>,
      <<"are", "they", "open", "on", "sunday">>,
      <<"help">> }

\* the browser location passed by the front end, if the user allowed it
UserLocations == { None, Some(<<"40.0", "-75.2">>) }

(***************************************************************************)
(* Result rows of the graph backend                                        *)
(***************************************************************************)
\* a row is a Python dict: a function from column names to values; the
\* organization names are word sequences
RowWidener == ("o.name" :> <<"widener", "library">>)
RowFree == ("name" :> <<"free", "library">>)
RowNoName == ("service" :> <<"story", "time">>)

\* the non-empty record lists the backend returns
ResultLists == { <<RowWidener, RowFree, RowNoName>> }

\* dict.get(key): None when the key is absent
Get(row, key) == IF key \in DOMAIN row THEN Some(row[key]) ELSE None

(***************************************************************************)
(* ConversationMemory  (src/models/conversation_memory.py)                 *)
(***************************************************************************)
\* __init__: max_history or Config.MAX_CONVERSATION_HISTORY
NewMemory(max_history) ==
    [ max_history          |-> IF max_history = 0
                               THEN MAX_CONVERSATION_HISTORY ELSE max_history,
      conversation_history |-> <<>>,
      current_context      |-> None,
      last_query           |-> None,
      last_organizations   |-> <<>>,
      last_spatial_info    |-> None ]

\* result.get('o.name') or result.get('name') or result.get('organizationName')
OrgNameOf(row) ==
    IF Truthy(Get(row, "o.name")) THEN Get(row, "o.name")
    ELSE IF Truthy(Get(row, "name")) THEN Get(row, "name")
    ELSE Get(row, "organizationName")

RECURSIVE OrganizationNames(_)
OrganizationNames(rows) ==
    IF rows = <<>> THEN <<>>
    ELSE (IF Truthy(OrgNameOf(Head(rows))) THEN <<OrgNameOf(Head(rows)).v>> ELSE <<>>)
         \o OrganizationNames(Tail(rows))

\* pop() in place of pop(0)
MaintainHistorySize_drop_newest(history, max_history) ==
    IF Len(history) > max_history THEN SubSeq(history, 1, Len(history) - 1) ELSE history

\* the history after the append, cut back to max_history entries
MaintainHistorySize(history, max_history) ==
    IF Len(history) > max_history THEN Tail(history) ELSE history

\* the turn stored without refreshing last_query
add_interaction_last_query_kept(mem, query, results, spatial_info) ==
    LET organization_names ==
            IF Truthy(results) THEN OrganizationNames(results.v) ELSE <<>>
        interaction == [ query              |-> query,
                         results            |-> results,
                         organization_names |-> organization_names,
                         spatial_info       |-> spatial_info ]
    IN [ mem EXCEPT
           !.conversation_history =
               MaintainHistorySize(Append(@, interaction), mem.max_history),
           !.current_context    = results,
           !.last_organizations = organization_names,
           !.last_spatial_info  = spatial_info ]

\* add_interaction(query, results, spatial_info); results is an optional list
add_interaction(mem, query, results, spatial_info) ==
    LET organization_names ==
            IF Truthy(results) THEN OrganizationNames(results.v) ELSE <<>>
        interaction == [ query              |-> query,
                         results            |-> results,
                         organization_names |-> organization_names,
                         spatial_info       |-> spatial_info ]
    IN [ mem EXCEPT
           !.conversation_history =
               MaintainHistorySize(Append(@, interaction), mem.max_history),
           !.current_context    = results,
           !.last_query         = Some(query),
           !.last_organizations = organization_names,
           !.last_spatial_info  = spatial_info ]

\* a clear that resets the history only
clear_memory_history_only(mem) == [ mem EXCEPT !.conversation_history = <<>> ]

\* clear_memory()
clear_memory(mem) ==
    [ mem EXCEPT !.conversation_history = <<>>,
                 !.current_context      = None,
                 !.last_query           = None,
                 !.last_organizations   = <<>>,
                 !.last_spatial_info    = None ]

\* _has_new_location_context: near \w+, close to \w+, in \w+, at \w+,
\* around \w+, within \d+
HasNewLocationContext(q) ==
    \E i \in 1..(Len(q) - 1) :
        \/ q[i] \in {"near", "in", "at", "around"} /\ IsWordChar(q[i + 1])
        \/ q[i] = "close" /\ i + 2 <= Len(q) /\ q[i + 1] = "to" /\ IsWordChar(q[i + 2])
        \/ q[i] = "within" /\ q[i + 1] \in Digits

\* _extract_topics: the topic words that occur in the text (substring test)
TopicKeywords ==
    { "printing", "computers", "wifi", "internet", "copying", "books", "study",
      "meeting", "programs", "classes", "hours", "open", "closed", "schedule",
      "time" }

ExtractTopics(q) == { k \in TopicKeywords : ContainsWord(q, k) }

\* the topics of the texts that can be stored as last_query
TopicsOfUserQuery == [q \in UserQueries |-> ExtractTopics(q)]

\* _has_topic_continuity
HasTopicContinuity(mem, new_query) ==
    IF ~Truthy(mem.last_query) THEN FALSE
    ELSE TopicsOfUserQuery[mem.last_query.v] \cap ExtractTopics(new_query) # {}

\* pronoun_patterns of should_use_memory
HasPronouns(q) ==
    \/ \E i \in 1..Len(q) : q[i] \in {"they", "them", "their", "those", "it"}
    \/ \E i \in 1..(Len(q) - 1) :
           q[i] \in {"that", "this"} /\ q[i + 1] \in {"organization", "place"}

\* followup_patterns of should_use_memory; the alternative `can I` is matched
\* against lower-cased text and therefore never matches
FollowupPrefixes ==
    { <<"what", "about">>, <<"how", "about">>, <<"do", "they">>, <<"are", "they">>,
      <<"is", "there">>, <<"which", "ones">>, <<"any", "of", "them">>,
      <<"what", "are", "their">>, <<"show", "me", "their">>,
      <<"tell", "me", "about", "their">> }

IsFollowupPattern(q) ==
    \/ \E p \in FollowupPrefixes : StartsWith(q, p)
    \/ \E w \in {"hours", "services", "address", "phone"} : EndsWith(q, <<w, "?">>)

\* detail_only_patterns of should_use_memory
DetailOnlyPrefixes ==
    { <<"what", "services">>, <<"what", "are", "the", "hours">>,
      <<"when", "are", "they", "open">>, <<"do", "any", "have">>,
      <<"does", "anyone", "have">>, <<"which", "have">>,
      <<"phone", "number", "for">>, <<"address", "for">>, <<"location", "for">> }

IsDetailQuery(q) == \E p \in DetailOnlyPrefixes : StartsWith(q, p)

\* should_use_memory(new_query)
should_use_memory(mem, new_query) ==
    IF ~Truthy(mem.current_context) \/ ~Truthy(mem.last_query) THEN FALSE
    ELSE IF HasPronouns(new_query) THEN TRUE
    ELSE IF IsFollowupPattern(new_query) THEN TRUE
    ELSE IF IsDetailQuery(new_query) /\ ~HasNewLocationContext(new_query) THEN TRUE
    ELSE IF HasTopicContinuity(mem, new_query) /\ ~HasNewLocationContext(new_query)
         THEN TRUE
    ELSE FALSE

\* is_simple_followup(query); `can I` never matches lower-cased text
SimpleFollowupPrefixes ==
    { <<"what", "are", "their">>, <<"what", "about", "their">>,
      <<"do", "they", "have">>, <<"tell", "me", "about", "their">>,
      <<"which", "ones">>, <<"any", "of", "them">>, <<"how", "many">> }

is_simple_followup(q) ==
    \/ \E p \in SimpleFollowupPrefixes : StartsWith(q, p)
    \/ \E w \in {"hours", "services", "address", "phone", "location"} :
           HasPhrase(q, <<w, "?">>)

\* substitute_pronouns(query): they, them, those (libraries|places|
\* organizations), those are replaced by the comma-joined organization names
RECURSIVE JoinNames(_)
JoinNames(names) ==
    IF names = <<>> THEN <<>>
    ELSE IF Len(names) = 1 THEN Head(names)
    ELSE Head(names) \o <<",">> \o JoinNames(Tail(names))

RECURSIVE SubstituteTokens(_, _)
SubstituteTokens(q, organization_list) ==
    IF q = <<>> THEN <<>>
    ELSE IF Head(q) \in {"they", "them"}
         THEN organization_list \o SubstituteTokens(Tail(q), organization_list)
    ELSE IF Head(q) = "those" /\ Len(q) >= 2
            /\ q[2] \in {"libraries", "places", "organizations"}
         THEN organization_list \o SubstituteTokens(Tail(Tail(q)), organization_list)
    ELSE IF Head(q) = "those"
         THEN organization_list \o SubstituteTokens(Tail(q), organization_list)
    ELSE <<Head(q)>> \o SubstituteTokens(Tail(q), organization_list)

substitute_pronouns(mem, q) ==
    IF mem.last_organizations = <<>> THEN q
    ELSE SubstituteTokens(q, JoinNames(mem.last_organizations))

(***************************************************************************)
(* Keyword normalizer  (QueryService._normalize_service_keywords)          *)
(***************************************************************************)
\* self.keyword_normalizations in insertion order: <<original, normalized>>
keyword_normalizations ==
    << <<<<"wifi">>, <<"wi-fi">>>>, <<<<"internet">>, <<"wi-fi">>>>,
       <<<<"wireless">>, <<"wi-fi">>>>, <<<<"meal">>, <<"food">>>>,
       <<<<"meals">>, <<"food">>>>, <<<<"dining">>, <<"food">>>>,
       <<<<"lunch">>, <<"food">>>>, <<<<"dinner">>, <<"food">>>>,
       <<<<"breakfast">>, <<"food">>>>, <<<<"appeals">>, <<"appeal">>>>,
       <<<<"benefits">>, <<"benefit">>>>,
       <<<<"applications">>, <<"apply">>>>,
       <<<<"computers">>, <<"computer">>>>, <<<<"classes">>, <<"class">>>>,
       <<<<"workshops">>, <<"workshop">>>>,
       <<<<"programs">>, <<"program">>>>,
       <<<<"collections">>, <<"collection">>>>, <<<<"rooms">>, <<"room">>>>,
       <<<<"spaces">>, <<"space">>>>, <<<<"events">>, <<"event">>>>,
       <<<<"services">>, <<"service">>>>, <<<<"books">>, <<"book">>>>,
       <<<<"cards">>, <<"card">>>>, <<<<"statements">>, <<"statement">>>>,
       <<<<"estimates">>, <<"estimate">>>>, <<<<"housing">>, <<"shelter">>>>,
       <<<<"stay">>, <<"shelter">>>>, <<<<"clothes">>, <<"clothing">>>>,
       <<<<"printing">>, <<"print">>>>, <<<<"copying">>, <<"copy">>>>,
       <<<<"scanning">>, <<"scan">>>>,
       <<<<"tutoring">>, <<"homework", "help">>>>,
       <<<<"employment">>, <<"job", "assistance">>>>,
       <<<<"storytime">>, <<"story", "time">>>>,
       <<<<"after-school">>, <<"after", "school">>>>,
       <<<<"programming">>, <<"coding">>>>,
       <<<<"audiobooks">>, <<"audio">>>>, <<<<"bathroom">>, <<"restroom">>>>,
       <<<<"conference">>, <<"meeting", "room">>>>,
       <<<<"quiet", "space">>, <<"study", "room">>>>,
       <<<<"return">>, <<"book", "drop">>>>,
       <<<<"shipping">>, <<"mail", "delivery">>>>,
       <<<<"wellness">>, <<"health">>>>, <<<<"movies">>, <<"film">>>>,
       <<<<"cash">>, <<"atm">>>>, <<<<"express">>, <<"overnight">>>>,
       <<<<"rush">>, <<"overnight">>>>,
       <<<<"addiction">>, <<"substance", "abuse">>>>,
       <<<<"recovery">>, <<"substance", "abuse">>>>,
       <<<<"sober", "living">>, <<"substance", "abuse">>>>,
       <<<<"detox">>, <<"substance", "abuse">>>>,
       <<<<"therapy">>, <<"mental", "health">>>>,
       <<<<"counseling">>, <<"mental", "health">>>>,
       <<<<"appealing">>, <<"appeal">>>>, <<<<"disputing">>, <<"appeal">>>>,
       <<<<"challenging">>, <<"appeal">>>>, <<<<"applying">>, <<"apply">>>>,
       <<<<"filing">>, <<"apply">>>>, <<<<"requesting">>, <<"request">>>>,
       <<<<"changing">>, <<"change">>>>, <<<<"updating">>, <<"change">>>>,
       <<<<"calculating">>, <<"estimate">>>>,
       <<<<"learning">>, <<"class">>>>, <<<<"studying">>, <<"study">>>>,
       <<<<"gaming">>, <<"game">>>>, <<<<"teaching">>, <<"class">>>>,
       <<<<"training">>, <<"class">>>> >>

\* re.sub(r'\b' + original + r'\b', normalized, text): every whole-word
\* occurrence, left to right, without rescanning the replacement
RECURSIVE ReplacePhrase(_, _, _)
ReplacePhrase(q, original, normalized) ==
    IF q = <<>> THEN <<>>
    ELSE IF StartsWith(q, original)
         THEN normalized
              \o ReplacePhrase(SubSeq(q, Len(original) + 1, Len(q)), original, normalized)
    ELSE <<Head(q)>> \o ReplacePhrase(Tail(q), original, normalized)

\* `original in query_lower`: a test on characters, on the text as the user
\* typed it.  A phrase of several words occurs where a word ends with its
\* first word, the words between are its own, and a word starts with its last.
OccursIn(original, q) ==
    IF Len(original) = 1 THEN ContainsWord(q, original[1])
    ELSE \E i \in 1..(Len(q) - Len(original) + 1) :
            /\ EndsWithWord(q[i], original[1])
            /\ \A k \in 2..(Len(original) - 1) : q[i + k - 1] = original[k]
            /\ StartsWithWord(q[i + Len(original) - 1], original[Len(original)])

\* the table walked from its last entry to its first
RECURSIVE NormalizeFrom_reverse_order(_, _, _)
NormalizeFrom_reverse_order(i, query, normalized_query) ==
    IF i > Len(keyword_normalizations) THEN normalized_query
    ELSE LET n == Len(keyword_normalizations) + 1 - i
         IN NormalizeFrom_reverse_order(i + 1, query,
                IF OccursIn(keyword_normalizations[n][1], query)
                THEN ReplacePhrase(normalized_query, keyword_normalizations[n][1],
                                   keyword_normalizations[n][2])
                ELSE normalized_query)

\* the loop over self.keyword_normalizations.items() from entry i on

RECURSIVE NormalizeFrom(_, _, _)
NormalizeFrom(i, query, normalized_query) ==
    IF i > Len(keyword_normalizations) THEN normalized_query
    ELSE NormalizeFrom(i + 1, query,
             IF OccursIn(keyword_normalizations[i][1], query)
             THEN ReplacePhrase(normalized_query, keyword_normalizations[i][1],
                                keyword_normalizations[i][2])
             ELSE normalized_query)

normalize_service_keywords(query) == NormalizeFrom(1, query, query)

(***************************************************************************)
(* SpatialIntelligence  (src/models/spatial_intelligence.py)               *)
(*                                                                         *)
(* The modelled query texts contain no street-suffix word (street, st,     *)
(* avenue, ...) and no zip code, so the address layers of the detector and *)
(* of the extractor cannot match and are left out.                         *)
(***************************************************************************)
\* Config.PHILLY_LANDMARKS (the entries the vocabulary can name)
philly_landmarks ==
    << [landmark |-> <<"city", "hall">>, coords |-> <<"39.952335", "-75.163789">>],
       [landmark |-> <<"liberty", "bell">>, coords |-> <<"39.9496", "-75.1503">>],
       [landmark |-> <<"fishtown">>, coords |-> <<"39.9759", "-75.1370">>] >>

CITY_HALL_COORDINATES == <<"39.952335", "-75.163789">>

time_words ==
    { "monday", "tuesday", "wednesday", "thursday", "friday", "saturday", "sunday",
      "weekday", "weekend", "morning", "afternoon", "evening", "night", "today",
      "tomorrow", "yesterday", "weekdays", "weekends", "am", "pm", "oclock" }

\* the maximal run [a-zA-Z]+(\s+[a-zA-Z]+)* that starts at position i
RECURSIVE AlphaRun(_, _)
AlphaRun(q, i) ==
    IF i > Len(q) \/ ~IsAlpha(q[i]) THEN <<>> ELSE <<q[i]>> \o AlphaRun(q, i + 1)

\* re.finditer of  \b<prep>\s+(?!the\s+)(?!a\s+)(?!\d)(run) : is there a match
\* whose captured run holds no time word; matches do not overlap
RECURSIVE PrepositionMatch(_, _, _, _)
PrepositionMatch(q, i, prep, blocked) ==
    IF i >= Len(q) THEN FALSE
    ELSE IF q[i] = prep /\ AlphaRun(q, i + 1) # <<>>
            /\ ~(q[i + 1] \in blocked /\ i + 2 <= Len(q))
         THEN \/ \A k \in 1..Len(AlphaRun(q, i + 1)) : AlphaRun(q, i + 1)[k] \notin time_words
              \/ PrepositionMatch(q, i + 1 + Len(AlphaRun(q, i + 1)), prep, blocked)
    ELSE PrepositionMatch(q, i + 1, prep, blocked)

UnitWords == {"mile", "miles", "mi", "km", "block", "blocks"}

ExplicitSpatialPattern(q) ==
    \/ \E i \in 1..(Len(q) - 1) : q[i] = "near" /\ IsAlpha(q[i + 1])
    \/ \E i \in 1..(Len(q) - 2) : q[i] = "close" /\ q[i + 1] = "to" /\ IsAlpha(q[i + 2])
    \/ \E i \in 1..(Len(q) - 2) :
           q[i] = "within" /\ q[i + 1] \in Digits
           /\ \E j \in (i + 2)..Len(q) : q[j] \in UnitWords
    \/ \E i \in 1..(Len(q) - 2) :
           q[i] \in Digits /\ q[i + 1] \in (UnitWords \ {"mi"}) /\ q[i + 2] \in {"of", "from"}
    \/ \E i \in 1..(Len(q) - 1) : q[i] \in {"walking", "driving"} /\ q[i + 1] = "distance"

HasLandmark(q) == \E n \in 1..Len(philly_landmarks) : HasPhrase(q, philly_landmarks[n].landmark)

\* around \d+ (am|pm|:\d+|o'clock)
HasAroundTime(q) ==
    \E i \in 1..(Len(q) - 2) :
        q[i] = "around" /\ q[i + 1] \in Digits /\ q[i + 2] \in {"am", "pm", "oclock"}

OtherTimeContext(q) ==
    \/ HasPhrase(q, <<"open", "around">>)
    \/ HasPhrase(q, <<"close", "around">>)
    \/ \E i, j \in 1..Len(q) : i < j /\ WordContains(q[i], "hours") /\ q[j] = "around"

remaining_spatial_keywords == {"closest", "nearest", "vicinity", "area", "location"}

\* detect_spatial_query(query)
detect_spatial_query(q) ==
    IF ExplicitSpatialPattern(q) THEN TRUE
    ELSE IF HasLandmark(q) THEN TRUE
    ELSE IF PrepositionMatch(q, 1, "in", {"the", "a"}) THEN TRUE
    ELSE IF PrepositionMatch(q, 1, "at", {}) THEN TRUE
    ELSE IF PrepositionMatch(q, 1, "on", {"the", "a"}) THEN TRUE
    ELSE IF PrepositionMatch(q, 1, "around", {"the"}) THEN TRUE
    ELSE IF HasAroundTime(q) /\ OtherTimeContext(q) THEN FALSE
    ELSE \E k \in remaining_spatial_keywords : ContainsWord(q, k)

stop_words == {"has", "have", "with", "on", "at", "in", "is", "are", "handles", "handle"}

\* extract_clean_location: drop stop words from the end; the text itself
\* when nothing is left
RECURSIVE DropTrailingStopWords(_)
DropTrailingStopWords(words) ==
    IF words # <<>> /\ words[Len(words)] \in stop_words
    THEN DropTrailingStopWords(SubSeq(words, 1, Len(words) - 1))
    ELSE words

extract_clean_location(text) ==
    IF DropTrailingStopWords(text) # <<>> THEN DropTrailingStopWords(text) ELSE text

contains_excluded_words(text, excluded_words) ==
    \E i \in 1..Len(text) : text[i] \in excluded_words

\* the capture of  <prefix>\s+(w(\s+w){lo-1,hi-1})(\s+<stop>\b|\s*$)  at
\* position i: the longest run of lo..hi words that is followed by a stop
\* word or by the end of the text
CaptureLengths(q, i, lo, hi, stops) ==
    { n \in lo..hi :
        /\ i + n - 1 <= Len(q)
        /\ \A k \in i..(i + n - 1) : IsAlpha(q[k])
        /\ (i + n - 1 = Len(q) \/ q[i + n] \in stops) }

Max(S) == CHOOSE x \in S : \A y \in S : y <= x

\* re.search: the leftmost position at which the pattern matches
RECURSIVE CaptureAfter(_, _, _, _, _, _)
CaptureAfter(q, i, prefix, lo, hi, stops) ==
    IF i > Len(q) THEN None
    ELSE IF EndsWithWord(q[i], prefix[1])
            /\ StartsWith(SubSeq(q, i + 1, Len(q)), Tail(prefix))
            /\ CaptureLengths(q, i + Len(prefix), lo, hi, stops) # {}
         THEN Some(SubSeq(q, i + Len(prefix),
                          i + Len(prefix) - 1
                            + Max(CaptureLengths(q, i + Len(prefix), lo, hi, stops))))
    ELSE CaptureAfter(q, i + 1, prefix, lo, hi, stops)

\* PRIORITY 3: multi-word landmark patterns, in order
landmark_patterns ==
    << [prefix |-> <<"near", "the">>, lo |-> 2, hi |-> 5],
       [prefix |-> <<"close", "to", "the">>, lo |-> 2, hi |-> 5],
       [prefix |-> <<"at", "the">>, lo |-> 2, hi |-> 5],
       [prefix |-> <<"around", "the">>, lo |-> 2, hi |-> 5],
       [prefix |-> <<"near">>, lo |-> 2, hi |-> 4],
       [prefix |-> <<"close", "to">>, lo |-> 2, hi |-> 4] >>

\* PRIORITY 6: simple location patterns, in order
simple_location_patterns ==
    << [prefix |-> <<"near">>, lo |-> 1, hi |-> 4],
       [prefix |-> <<"close", "to">>, lo |-> 1, hi |-> 4],
       [prefix |-> <<"at">>, lo |-> 1, hi |-> 4],
       [prefix |-> <<"in">>, lo |-> 1, hi |-> 4],
       [prefix |-> <<"around">>, lo |-> 1, hi |-> 4] >>

service_words ==
    {"story", "time", "toddler", "program", "class", "service", "form", "tax", "application"}

non_location_words ==
    { "form", "tax", "w2", "w-2", "1099", "statement", "document", "paper", "apply",
      "retirement", "benefits", "where", "can", "story", "time", "toddler", "program",
      "class", "service" }

weekday_words ==
    {"wednesday", "monday", "tuesday", "thursday", "friday", "saturday", "sunday"}

\* the first pattern of the list, from index n on, whose cleaned capture
\* passes the exclusion list
RECURSIVE FirstAccepted(_, _, _, _, _)
FirstAccepted(q, patterns, n, excluded, skip_around) ==
    IF n > Len(patterns) THEN None
    ELSE LET cap == IF skip_around /\ patterns[n].prefix[1] = "around" THEN None
                    ELSE CaptureAfter(q, 1, patterns[n].prefix, patterns[n].lo,
                                      patterns[n].hi, stop_words)
         IN IF ~IsNone(cap) /\ ~contains_excluded_words(extract_clean_location(cap.v), excluded)
            THEN Some(extract_clean_location(cap.v))
            ELSE FirstAccepted(q, patterns, n + 1, excluded, skip_around)

\* PRIORITY 7: within N <unit> of X  /  N <unit> (of|from) X
DistancePatternCapture(q, i) ==
    IF i + 3 <= Len(q) /\ q[i] \in Digits /\ q[i + 1] \in UnitWords
       /\ q[i + 2] \in {"of", "from"}
       /\ CaptureLengths(q, i + 3, 1, 5, {"has", "have", "with", "on", "at", "in"}) # {}
    THEN Some(SubSeq(q, i + 3,
              i + 2 + Max(CaptureLengths(q, i + 3, 1, 5, {"has", "have", "with", "on", "at", "in"}))))
    ELSE None

RECURSIVE FirstDistanceCapture(_, _)
FirstDistanceCapture(q, i) ==
    IF i > Len(q) THEN None
    ELSE IF ~IsNone(DistancePatternCapture(q, i)) THEN DistancePatternCapture(q, i)
    ELSE FirstDistanceCapture(q, i + 1)

RECURSIVE FirstLandmarkIn(_, _)
FirstLandmarkIn(q, n) ==
    IF n > Len(philly_landmarks) THEN None
    ELSE IF HasPhrase(q, philly_landmarks[n].landmark) THEN Some(philly_landmarks[n])
    ELSE FirstLandmarkIn(q, n + 1)

\* extract_location_from_query(query): the location phrase, or None
extract_location_from_query(q) ==
    IF ~IsNone(FirstLandmarkIn(q, 1)) THEN Some(FirstLandmarkIn(q, 1).v.landmark)
    ELSE IF ~IsNone(FirstAccepted(q, landmark_patterns, 1, service_words, FALSE))
         THEN FirstAccepted(q, landmark_patterns, 1, service_words, FALSE)
    ELSE IF ~IsNone(FirstAccepted(q, simple_location_patterns, 1,
                                  non_location_words \cup weekday_words, HasAroundTime(q)))
         THEN FirstAccepted(q, simple_location_patterns, 1,
                            non_location_words \cup weekday_words, HasAroundTime(q))
    ELSE IF ~IsNone(FirstDistanceCapture(q, 1))
            /\ ~contains_excluded_words(extract_clean_location(FirstDistanceCapture(q, 1).v),
                                        non_location_words)
         THEN Some(extract_clean_location(FirstDistanceCapture(q, 1).v))
    ELSE None

\* numeric value of a \d+ token
NumberValue(t) == IF t = "1" THEN 1 ELSE IF t = "2" THEN 2 ELSE 5

\* Config.PROXIMITY_THRESHOLDS in insertion order (millionths of a mile)
proximity_thresholds ==
    << [term |-> <<"nearby">>, threshold |-> 800000],
       [term |-> <<"close">>, threshold |-> 800000],
       [term |-> <<"walking", "distance">>, threshold |-> 800000],
       [term |-> <<"driving", "distance">>, threshold |-> 3000000],
       [term |-> <<"blocks">>, threshold |-> 1000000],
       [term |-> <<"vicinity">>, threshold |-> 1000000],
       [term |-> <<"area">>, threshold |-> 2000000] >>

RECURSIVE ExplicitDistance(_, _)
ExplicitDistance(q, i) ==
    IF i >= Len(q) THEN None
    ELSE IF q[i] \in Digits /\ q[i + 1] \in UnitWords
         THEN Some(IF q[i + 1] = "km" THEN NumberValue(q[i]) * 621371
                   ELSE IF q[i + 1] \in {"block", "blocks"} THEN NumberValue(q[i]) * 100000
                   ELSE NumberValue(q[i]) * 1000000)
    ELSE ExplicitDistance(q, i + 1)

RECURSIVE SemanticThreshold(_, _)
SemanticThreshold(q, n) ==
    IF n > Len(proximity_thresholds) THEN None
    ELSE IF OccursIn(proximity_thresholds[n].term, q) THEN Some(proximity_thresholds[n].threshold)
    ELSE SemanticThreshold(q, n + 1)

\* get_distance_threshold(query)
get_distance_threshold(q) ==
    IF ~IsNone(ExplicitDistance(q, 1)) THEN ExplicitDistance(q, 1).v
    ELSE IF ~IsNone(SemanticThreshold(q, 1)) THEN SemanticThreshold(q, 1).v
    ELSE DEFAULT_DISTANCE_THRESHOLD

\* create_spatial_info(location_text, user_coordinates, distance_threshold);
\* distance_threshold is optional (None after a closest-match answer)
create_spatial_info(location_text, user_coordinates, distance_threshold) ==
    Some([ location_text      |-> location_text,
           coordinates        |-> user_coordinates,
           distance_threshold |-> distance_threshold ])

\* geocode_location(location_text).  provider is what the geocoding service
\* answers if it is asked: Some(coords), None (no match) or "error".
\* The cache is a set of <<phrase, coords>> pairs.
GeocodeCached(cache, location_text) == \E e \in cache : e[1] = location_text
CachedCoordinates(cache, location_text) ==
    (CHOOSE e \in cache : e[1] = location_text)[2]

ProviderAnswers ==
    { [kind |-> "found", coords |-> <<"39.9", "-75.1">>],
      [kind |-> "not_found", coords |-> <<>>],
      [kind |-> "error", coords |-> <<>>] }

\* the gazetteer consulted only after the provider found nothing
geocode_location_provider_first(cache, location_text, provider) ==
    IF GeocodeCached(cache, location_text)
    THEN [coords |-> Some(CachedCoordinates(cache, location_text)), cache |-> cache,
          provider_called |-> FALSE]
    ELSE IF provider.kind = "found"
    THEN [coords |-> Some(provider.coords),
          cache |-> cache \cup {<<location_text, provider.coords>>},
          provider_called |-> TRUE]
    ELSE IF ~IsNone(FirstLandmarkIn(location_text, 1))
    THEN [coords |-> Some(FirstLandmarkIn(location_text, 1).v.coords),
          cache |-> cache \cup {<<location_text, FirstLandmarkIn(location_text, 1).v.coords>>},
          provider_called |-> TRUE]
    ELSE [coords |-> None, cache |-> cache, provider_called |-> TRUE]

\* an error of the provider taken for an answer
geocode_location_error_as_found(cache, location_text, provider) ==
    IF GeocodeCached(cache, location_text)
    THEN [coords |-> Some(CachedCoordinates(cache, location_text)), cache |-> cache,
          provider_called |-> FALSE]
    ELSE IF ~IsNone(FirstLandmarkIn(location_text, 1))
    THEN [coords |-> Some(FirstLandmarkIn(location_text, 1).v.coords),
          cache |-> cache \cup {<<location_text, FirstLandmarkIn(location_text, 1).v.coords>>},
          provider_called |-> FALSE]
    ELSE IF provider.kind # "not_found"
    THEN [coords |-> Some(provider.coords),
          cache |-> cache \cup {<<location_text, provider.coords>>},
          provider_called |-> TRUE]
    ELSE [coords |-> None, cache |-> cache, provider_called |-> TRUE]

geocode_location(cache, location_text, provider) ==
    IF GeocodeCached(cache, location_text)
    THEN [coords |-> Some(CachedCoordinates(cache, location_text)), cache |-> cache,
          provider_called |-> FALSE]
    ELSE IF ~IsNone(FirstLandmarkIn(location_text, 1))
    THEN [coords |-> Some(FirstLandmarkIn(location_text, 1).v.coords),
          cache |-> cache \cup {<<location_text, FirstLandmarkIn(location_text, 1).v.coords>>},
          provider_called |-> FALSE]
    ELSE IF provider.kind = "found"
    THEN [coords |-> Some(provider.coords),
          cache |-> cache \cup {<<location_text, provider.coords>>},
          provider_called |-> TRUE]
    ELSE [coords |-> None, cache |-> cache, provider_called |-> TRUE]

\* the normalized text of every user query (Step 0 of both entry points)
NormalizedQuery == [q \in UserQueries |-> normalize_service_keywords(q)]

\* the texts process_query can work on: a normalized query, possibly with its
\* pronouns replaced by the organization names of a stored result list
ProcessedQueries ==
    { NormalizedQuery[q] : q \in UserQueries }
      \cup { SubstituteTokens(NormalizedQuery[q], JoinNames(OrganizationNames(rows))) :
               q \in UserQueries, rows \in ResultLists }

\* detect_spatial_query, extract_location_from_query and
\* get_distance_threshold, tabulated over these texts
IsSpatialQuery == [p \in ProcessedQueries |-> detect_spatial_query(p)]
LocationText == [p \in ProcessedQueries \cup UserQueries |-> extract_location_from_query(p)]
DistanceThreshold == [p \in ProcessedQueries |-> get_distance_threshold(p)]
IsSimpleFollowup == [q \in UserQueries |-> is_simple_followup(q)]

(***************************************************************************)
(* QueryService: the retrieval attempts  (src/services/query_service.py)   *)
(***************************************************************************)
\* what the LLM chain does when it is invoked
LlmAnswers == {"ok", "error"}

\* what neo4j_client.query does: a list of rows (possibly empty) or it raises
BackendAnswers ==
    { [kind |-> "records", rows |-> rows] : rows \in ResultLists }
      \cup { [kind |-> "empty", rows |-> <<>>], [kind |-> "error", rows |-> <<>>] }

\* the dict an attempt returns; absent keys read through .get() defaults
AttemptResult(success, results, error, distance_threshold, closest_search) ==
    [ success            |-> success,
      results            |-> results,
      error              |-> error,
      distance_threshold |-> distance_threshold,
      expanded_radius    |-> FALSE,
      closest_search     |-> closest_search ]

NoResult == AttemptResult(FALSE, None, None, None, FALSE)

\* _execute_cypher_query_with_enhanced_metrics: when the chain raises, the
\* direct LLM call is tried and at worst an empty query text is executed, so
\* the backend is asked in every case; an exception of the backend gives
\* success False, results None and an error text
execute_cypher_query(llm, backend) ==
    IF backend.kind = "error"
    THEN AttemptResult(FALSE, None, Some("Query execution failed"), None, FALSE)
    ELSE AttemptResult(TRUE, Some(backend.rows), None, None, FALSE)

\* _retry_with_expanded_radius_and_enhanced_metrics: when the chain raises,
\* cypher_response is unbound and reading it raises inside the outer try;
\* success is bool(expanded_results)
retry_with_expanded_radius(llm, backend) ==
    IF llm = "error" \/ backend.kind = "error"
    THEN AttemptResult(FALSE, None, Some("Expanded query failed"), None, FALSE)
    ELSE AttemptResult(backend.rows # <<>>, Some(backend.rows), None,
                       Some(EXPANDED_DISTANCE_THRESHOLD), FALSE)

\* _find_closest_organization_with_enhanced_metrics
find_closest_organization(llm, backend) ==
    IF llm = "error" \/ backend.kind = "error"
    THEN AttemptResult(FALSE, None, Some("Closest organization search failed"), None, TRUE)
    ELSE AttemptResult(backend.rows # <<>>, Some(backend.rows), None, None, TRUE)

\* the expansion decided without looking at the threshold
NeedsExpandedRetry_threshold_ignored(path, query_result, is_spatial_query, distance_threshold) ==
    /\ query_result.success
    /\ ~Truthy(query_result.results)
    /\ \/ path = "process_query_with_coordinates"
       \/ is_spatial_query

\* process_query: `if query_result['success'] and not query_result['results']`
\* followed by `if is_spatial_query and distance_threshold < EXPANDED`;
\* process_query_with_coordinates has the outer test only
NeedsExpandedRetry(path, query_result, is_spatial_query, distance_threshold) ==
    /\ query_result.success
    /\ ~Truthy(query_result.results)
    /\ \/ path = "process_query_with_coordinates"
       \/ /\ is_spatial_query
          /\ distance_threshold.v < EXPANDED_DISTANCE_THRESHOLD

\* `if expanded_result['success'] and expanded_result['results']`
ExpandedFound(expanded_result) ==
    expanded_result.success /\ Truthy(expanded_result.results)

\* the test with its `not` left out
NeedsClosestSearch_negation_dropped(expanded_result, is_spatial_query) ==
    ~ExpandedFound(expanded_result) /\ Truthy(expanded_result.results) /\ is_spatial_query

\* `elif not expanded_result['results'] and is_spatial_query`
NeedsClosestSearch(expanded_result, is_spatial_query) ==
    ~ExpandedFound(expanded_result) /\ ~Truthy(expanded_result.results) /\ is_spatial_query

\* the threshold of the first attempt left in place
SetThreshold_unchanged(spatial_info, value) == spatial_info

\* spatial_info['distance_threshold'] = value, guarded by `if spatial_info`
SetThreshold(spatial_info, value) ==
    IF IsNone(spatial_info) THEN spatial_info
    ELSE Some([spatial_info.v EXCEPT !.distance_threshold = value])

\* the memory update made whatever the memory decision was
UpdateMemory_decision_ignored(mem, user_query, results, use_memory, spatial_info) ==
    IF Truthy(results) THEN add_interaction(mem, user_query, results, spatial_info)
    ELSE clear_memory(mem)

\* Step 7 of process_query (Step 6 of process_query_with_coordinates)
UpdateMemory(mem, user_query, results, use_memory, spatial_info) ==
    IF Truthy(results) /\ ~use_memory THEN add_interaction(mem, user_query, results, spatial_info)
    ELSE IF ~Truthy(results) /\ ~use_memory THEN clear_memory(mem)
    ELSE mem

\* the returned dict with both flags left at their default
QueryOutcome_flags_not_copied(path, query_result, spatial_info, use_memory, is_spatial_query) ==
    [ kind            |-> path,
      success         |-> TRUE,
      error           |-> None,
      results         |-> query_result.results,
      spatial_info    |-> spatial_info,
      used_memory     |-> use_memory,
      expanded_radius |-> FALSE,
      closest_search  |-> FALSE,
      is_spatial      |-> is_spatial_query ]

\* the dict returned at the end of process_query / process_query_with_coordinates
QueryOutcome(path, query_result, spatial_info, use_memory, is_spatial_query) ==
    [ kind            |-> path,
      success         |-> TRUE,
      error           |-> None,
      results         |-> query_result.results,
      spatial_info    |-> spatial_info,
      used_memory     |-> use_memory,
      expanded_radius |-> query_result.expanded_radius,
      closest_search  |-> query_result.closest_search,
      is_spatial      |-> is_spatial_query ]

\* the dict _process_spatial_query returns on failure, which process_query
\* hands back unchanged: only `success` and `error` are present
SpatialFailure(error) ==
    [ kind            |-> "process_query",
      success         |-> FALSE,
      error           |-> Some(error),
      results         |-> None,
      spatial_info    |-> None,
      used_memory     |-> FALSE,
      expanded_radius |-> FALSE,
      closest_search  |-> FALSE,
      is_spatial      |-> FALSE ]

\* _process_spatial_query(query)
process_spatial_query(cache, query, provider) ==
    LET location_text == LocationText[query]
        geo == geocode_location(cache, location_text.v, provider)
    IN IF ~Truthy(location_text)
       THEN [success |-> FALSE, cache |-> cache, provider_called |-> FALSE,
             error |-> "Spatial keywords detected but no location extracted",
             spatial_info |-> None, user_coordinates |-> None, distance_threshold |-> None]
       ELSE IF IsNone(geo.coords)
       THEN [success |-> FALSE, cache |-> geo.cache, provider_called |-> geo.provider_called,
             error |-> "Could not geocode location",
             spatial_info |-> None, user_coordinates |-> None, distance_threshold |-> None]
       ELSE [success |-> TRUE, cache |-> geo.cache, provider_called |-> geo.provider_called,
             error |-> "",
             spatial_info |-> create_spatial_info(location_text.v, geo.coords.v,
                                                  Some(DistanceThreshold[query])),
             user_coordinates |-> geo.coords,
             distance_threshold |-> Some(DistanceThreshold[query])]

(***************************************************************************)
(* OrganizationInfoApp: request routing  (src/streamlit_app.py)            *)
(***************************************************************************)
\* _is_personal_location_query; `where I am` never matches lower-cased text
is_personal_location_query(q) ==
    \/ \E p \in { <<"near", "me">>, <<"around", "me">>, <<"close", "to", "me">>,
                  <<"nearby", "me">>, <<"my", "location">>, <<"my", "area">>,
                  <<"in", "my", "vicinity">> } : HasPhrase(q, p)
    \/ HasToken(q, "here")
    \/ \E i, j \in 1..Len(q) : i < j /\ j < Len(q) /\ q[i] = "within"
                                /\ q[j] = "of" /\ q[j + 1] = "me"

\* process_user_request_for_streamlit: the four location scenarios.  The
\* result is the coordinates to use, or None when process_query is to run.
PredefinedCoordinates(q, user_location) ==
    IF is_personal_location_query(q)
    THEN (IF ~IsNone(user_location) THEN user_location ELSE Some(CITY_HALL_COORDINATES))
    ELSE IF ~IsNone(user_location) THEN None
    ELSE IF Truthy(LocationText[q]) THEN None
    ELSE Some(CITY_HALL_COORDINATES)

special_commands == { <<"help">>, <<"h">>, <<"metrics">>, <<"stats">>, <<"statistics">> }

\* the cached path taken without asking the memory
UsesCachedResults_simple_followup_only(mem, q) == IsSimpleFollowup[q]

\* `if is_simple_followup(user_query) and memory.should_use_memory(user_query)`
UsesCachedResults(mem, q) == IsSimpleFollowup[q] /\ should_use_memory(mem, q)

\* the routing decision of process_user_request_for_streamlit per input
Route == [q \in UserQueries |-> [l \in UserLocations |-> PredefinedCoordinates(q, l)]]

\* the inputs for which process_query runs / for which predefined
\* coordinates are used
SpatialIntelInputs ==
    { i \in UserQueries \X UserLocations :
        i[1] \notin special_commands /\ IsNone(Route[i[1]][i[2]]) }
CoordinateInputs ==
    { i \in UserQueries \X UserLocations :
        i[1] \notin special_commands /\ ~IsNone(Route[i[1]][i[2]]) }

(***************************************************************************)
(* State                                                                   *)
(***************************************************************************)
VARIABLES
    memory,           \* the session's ConversationMemory object
    geocoding_cache,  \* SpatialIntelligence.geocoding_cache
    pc,               \* where the request in progress stands
    req,              \* local variables of the request in progress
    attempts,         \* retrieval attempts made by the current / last request
    outcome,          \* what the last finished request returned
    call_log,         \* memory-only runs: add_interaction arguments since the last clear
    calls,            \* memory-only and geocoding-only runs: number of calls made
    geocode_log,      \* geocoding-only runs: what each geocode_location call did
    fn_args,          \* runs of one function: the arguments it is called with
    fn_result,        \* runs of one function: what it returned, None before the call
    session_state,    \* st.session_state.app_instance of every browser session
    app_instances     \* the OrganizationInfoApp objects created so far

vars == <<memory, geocoding_cache, pc, req, attempts, outcome, call_log, calls, geocode_log,
          fn_args, fn_result, session_state, app_instances>>

NoRequest ==
    [ path               |-> "",
      user_query         |-> <<>>,
      processed_query    |-> <<>>,
      use_memory         |-> FALSE,
      is_spatial_query   |-> FALSE,
      spatial_info       |-> None,
      user_coordinates   |-> None,
      distance_threshold |-> None,
      query_result       |-> NoResult,
      expanded_result    |-> NoResult ]

NoOutcome ==
    [ kind |-> "", success |-> FALSE, error |-> None, results |-> None,
      spatial_info |-> None, used_memory |-> FALSE, expanded_radius |-> FALSE,
      closest_search |-> FALSE, is_spatial |-> FALSE ]

Init ==
    /\ memory = NewMemory(MaxHistory)
    /\ geocoding_cache = {}
    /\ pc = "idle"
    /\ req = NoRequest
    /\ attempts = <<>>
    /\ outcome = NoOutcome
    /\ call_log = <<>>
    /\ calls = 0
    /\ geocode_log = <<>>
    /\ fn_args = None
    /\ fn_result = None
    /\ session_state = [s \in Sessions |-> None]
    /\ app_instances = <<>>

(***************************************************************************)
(* Requests                                                                *)
(***************************************************************************)
\* help / metrics commands are answered before anything else is looked at
SpecialCommand ==
    \E q \in UserQueries :
        /\ pc = "idle"
        /\ q \in special_commands
        /\ outcome' = [NoOutcome EXCEPT !.kind = "special", !.success = TRUE]
        /\ attempts' = <<>>
        /\ UNCHANGED <<memory, geocoding_cache, pc, req, call_log, calls, geocode_log, fn_args, fn_result,
                   session_state, app_instances>>

\* _handle_cached_query_with_enhanced_metrics: a simple follow-up is answered
\* from memory.current_context
CachedFollowup ==
    \E q \in UserQueries :
        /\ pc = "idle"
        /\ q \notin special_commands
        /\ UsesCachedResults(memory, q)
        /\ outcome' = [NoOutcome EXCEPT !.kind = "cached",
                                        !.success = Truthy(memory.current_context),
                                        !.results = memory.current_context,
                                        !.used_memory = TRUE]
        /\ attempts' = <<>>
        /\ UNCHANGED <<memory, geocoding_cache, pc, req, call_log, calls, geocode_log, fn_args, fn_result,
                   session_state, app_instances>>

\* process_query, Steps 0 to 3: normalization, memory decision, pronoun
\* substitution and spatial detection
StartProcessQuery ==
    \E input \in SpatialIntelInputs :
        LET q                == input[1]
            normalized_query == NormalizedQuery[q]
            use_memory       == should_use_memory(memory, normalized_query)
            processed_query  == IF use_memory
                                THEN substitute_pronouns(memory, normalized_query)
                                ELSE normalized_query
            is_spatial_query == IsSpatialQuery[processed_query]
        IN /\ pc = "idle"
           /\ ~UsesCachedResults(memory, q)
           /\ attempts' = <<>>
           /\ outcome' = NoOutcome
           /\ req' = [ NoRequest EXCEPT
                         !.path = "process_query",
                         !.user_query = q,
                         !.processed_query = processed_query,
                         !.use_memory = use_memory,
                         !.is_spatial_query = is_spatial_query ]
           /\ pc' = IF is_spatial_query THEN "spatial" ELSE "default"
           /\ UNCHANGED <<memory, geocoding_cache, call_log, calls, geocode_log, fn_args, fn_result,
                   session_state, app_instances>>

\* process_query, Steps 4 and 5: `if is_spatial_query:` the location is
\* resolved, and `if not spatial_result['success']: return spatial_result`
ResolveSpatial ==
    \E provider \in ProviderAnswers :
        LET spatial_result ==
                process_spatial_query(geocoding_cache, req.processed_query, provider)
        IN /\ pc = "spatial"
           /\ geocoding_cache' = spatial_result.cache
           /\ IF ~spatial_result.success
              THEN /\ outcome' = SpatialFailure(spatial_result.error)
                   /\ pc' = "idle"
                   /\ req' = NoRequest
              ELSE /\ req' = [ req EXCEPT
                                 !.spatial_info = spatial_result.spatial_info,
                                 !.user_coordinates = spatial_result.user_coordinates,
                                 !.distance_threshold = spatial_result.distance_threshold ]
                   /\ pc' = "default"
                   /\ UNCHANGED outcome
           /\ UNCHANGED <<memory, attempts, call_log, calls, geocode_log, fn_args, fn_result,
                   session_state, app_instances>>

\* process_query_with_coordinates, Steps 0 to 4
StartProcessQueryWithCoordinates ==
    \E input \in CoordinateInputs :
        LET q                == input[1]
            coordinates      == Route[q][input[2]]
            normalized_query == NormalizedQuery[q]
            use_memory       == should_use_memory(memory, normalized_query)
            processed_query  == IF use_memory
                                THEN substitute_pronouns(memory, normalized_query)
                                ELSE normalized_query
            location_text    == IF coordinates.v # CITY_HALL_COORDINATES
                                THEN <<"user", "location">>
                                ELSE <<"city", "hall", "(default)">>
        IN /\ pc = "idle"
           /\ ~UsesCachedResults(memory, q)
           /\ attempts' = <<>>
           /\ pc' = "default"
           /\ req' = [ NoRequest EXCEPT
                         !.path = "process_query_with_coordinates",
                         !.user_query = q,
                         !.processed_query = processed_query,
                         !.use_memory = use_memory,
                         !.is_spatial_query = TRUE,
                         !.spatial_info =
                             create_spatial_info(location_text, coordinates.v,
                                                 Some(DEFAULT_DISTANCE_THRESHOLD)),
                         !.user_coordinates = coordinates,
                         !.distance_threshold = Some(DEFAULT_DISTANCE_THRESHOLD) ]
           /\ outcome' = NoOutcome
           /\ UNCHANGED <<memory, geocoding_cache, call_log, calls, geocode_log, fn_args, fn_result,
                   session_state, app_instances>>

\* one entry of the attempt log: the stage and how the attempt ended
Attempt(stage, result) ==
    [ stage  |-> stage,
      result |-> IF ~result.success /\ IsNone(result.results) THEN "error"
                 ELSE IF Truthy(result.results) THEN "records" ELSE "empty" ]

\* a default-radius attempt that is made again after an error
DefaultAttempt_retry_after_error ==
    \E llm \in LlmAnswers, backend \in BackendAnswers :
        LET query_result == execute_cypher_query(llm, backend)
        IN /\ pc = "default"
           /\ attempts' = Append(attempts, Attempt("default", query_result))
           /\ req' = [req EXCEPT !.query_result = query_result]
           /\ pc' = IF ~query_result.success THEN "default"
                    ELSE IF NeedsExpandedRetry(req.path, query_result, req.is_spatial_query,
                                               req.distance_threshold)
                    THEN "expanded" ELSE "finish"
           /\ UNCHANGED <<memory, geocoding_cache, outcome, call_log, calls, geocode_log, fn_args, fn_result,
                   session_state, app_instances>>

\* the default-radius attempt and the decision that follows it
DefaultAttempt ==
    \E llm \in LlmAnswers, backend \in BackendAnswers :
        LET query_result == execute_cypher_query(llm, backend)
        IN /\ pc = "default"
           /\ attempts' = Append(attempts, Attempt("default", query_result))
           /\ req' = [req EXCEPT !.query_result = query_result]
           /\ pc' = IF NeedsExpandedRetry(req.path, query_result, req.is_spatial_query,
                                          req.distance_threshold)
                    THEN "expanded" ELSE "finish"
           /\ UNCHANGED <<memory, geocoding_cache, outcome, call_log, calls, geocode_log, fn_args, fn_result,
                   session_state, app_instances>>

\* the expanded-radius attempt and the decision that follows it
ExpandedAttempt ==
    \E llm \in LlmAnswers, backend \in BackendAnswers :
        LET expanded_result == retry_with_expanded_radius(llm, backend)
        IN /\ pc = "expanded"
           /\ attempts' = Append(attempts, Attempt("expanded", expanded_result))
           /\ IF ExpandedFound(expanded_result)
              THEN /\ req' = [req EXCEPT
                                !.spatial_info =
                                    SetThreshold(@, expanded_result.distance_threshold),
                                !.expanded_result = expanded_result,
                                !.query_result =
                                    [expanded_result EXCEPT !.expanded_radius = TRUE]]
                   /\ pc' = "finish"
              ELSE /\ req' = [req EXCEPT !.expanded_result = expanded_result]
                   /\ pc' = IF NeedsClosestSearch(expanded_result, req.is_spatial_query)
                            THEN "closest" ELSE "finish"
           /\ UNCHANGED <<memory, geocoding_cache, outcome, call_log, calls, geocode_log, fn_args, fn_result,
                   session_state, app_instances>>

\* the closest-match attempt
ClosestAttempt ==
    \E llm \in LlmAnswers, backend \in BackendAnswers :
        LET closest_result == find_closest_organization(llm, backend)
        IN /\ pc = "closest"
           /\ attempts' = Append(attempts, Attempt("closest", closest_result))
           /\ IF closest_result.success /\ Truthy(closest_result.results)
              THEN req' = [req EXCEPT
                             !.spatial_info = SetThreshold(@, None),
                             !.query_result =
                                 [closest_result EXCEPT !.expanded_radius = TRUE,
                                                        !.closest_search = TRUE]]
              ELSE UNCHANGED req
           /\ pc' = "finish"
           /\ UNCHANGED <<memory, geocoding_cache, outcome, call_log, calls, geocode_log, fn_args, fn_result,
                   session_state, app_instances>>

\* the memory update and the return statement
Finish ==
    /\ pc = "finish"
    /\ memory' = UpdateMemory(memory, req.user_query, req.query_result.results,
                              req.use_memory, req.spatial_info)
    /\ outcome' = QueryOutcome(req.path, req.query_result, req.spatial_info,
                               req.use_memory, req.is_spatial_query)
    /\ pc' = "idle"
    /\ req' = NoRequest
    /\ UNCHANGED <<geocoding_cache, attempts, call_log, calls, geocode_log, fn_args, fn_result,
                   session_state, app_instances>>

Next ==
    \/ SpecialCommand
    \/ CachedFollowup
    \/ StartProcessQuery
    \/ ResolveSpatial
    \/ StartProcessQueryWithCoordinates
    \/ DefaultAttempt
    \/ ExpandedAttempt
    \/ ClosestAttempt
    \/ Finish

Spec == Init /\ [][Next]_vars

(***************************************************************************)
(* ConversationMemory used on its own: any sequence of add_interaction and *)
(* clear_memory calls on a memory built with any history bound             *)
(***************************************************************************)
MemoryCallQueries == { <<"printing">>, <<"closest", "library">> }
MemoryCallResults == { Some(rows) : rows \in ResultLists } \cup { Some(<<>>) }
MemoryCallSpatialInfo ==
    { None, create_spatial_info(<<"city", "hall">>, CITY_HALL_COORDINATES,
                                Some(DEFAULT_DISTANCE_THRESHOLD)) }

\* ConversationMemory(max_history); 0 stands for the omitted argument
InitMemory ==
    /\ memory \in { NewMemory(n) : n \in 0..(MaxHistory + 1) }
    /\ geocoding_cache = {}
    /\ pc = "idle"
    /\ req = NoRequest
    /\ attempts = <<>>
    /\ outcome = NoOutcome
    /\ call_log = <<>>
    /\ calls = 0
    /\ geocode_log = <<>>
    /\ fn_args = None
    /\ fn_result = None
    /\ session_state = [s \in Sessions |-> None]
    /\ app_instances = <<>>

AddInteractionCall ==
    \E query \in MemoryCallQueries, results \in MemoryCallResults,
       spatial_info \in MemoryCallSpatialInfo :
        /\ calls < MaxCalls
        /\ memory' = add_interaction(memory, query, results, spatial_info)
        /\ call_log' = Append(call_log, [ query |-> query, results |-> results,
                                          spatial_info |-> spatial_info ])
        /\ calls' = calls + 1
        /\ UNCHANGED <<geocoding_cache, pc, req, attempts, outcome, geocode_log, fn_args, fn_result,
                   session_state, app_instances>>

ClearMemoryCall ==
    /\ calls < MaxCalls
    /\ memory' = clear_memory(memory)
    /\ call_log' = <<>>
    /\ calls' = calls + 1
    /\ UNCHANGED <<geocoding_cache, pc, req, attempts, outcome, geocode_log, fn_args, fn_result,
                   session_state, app_instances>>

NextMemory ==
    \/ AddInteractionCall
    \/ ClearMemoryCall

SpecMemory == InitMemory /\ [][NextMemory]_vars

(***************************************************************************)
(* SpatialIntelligence used on its own: any sequence of geocode_location   *)
(* calls on one object, against any behaviour of the provider              *)
(***************************************************************************)
GeocodePhrases ==
    { <<"city", "hall">>, <<"fishtown", "library">>, <<"xyzzy">>, <<"temple">> }

GeocodeCall ==
    \E location_text \in GeocodePhrases, provider \in ProviderAnswers :
        LET geo == geocode_location(geocoding_cache, location_text, provider)
        IN /\ calls < MaxCalls
           /\ geocoding_cache' = geo.cache
           /\ geocode_log' =
                  Append(geocode_log,
                         [ location_text   |-> location_text,
                           cached          |-> IF GeocodeCached(geocoding_cache, location_text)
                                               THEN Some(CachedCoordinates(geocoding_cache,
                                                                           location_text))
                                               ELSE None,
                           provider        |-> provider.kind,
                           provider_called |-> geo.provider_called,
                           coords          |-> geo.coords ])
           /\ calls' = calls + 1
           /\ UNCHANGED <<memory, pc, req, attempts, outcome, call_log, fn_args, fn_result,
                   session_state, app_instances>>

SpecGeocode == Init /\ [][GeocodeCall]_vars

(***************************************************************************)
(* Runs of one function: a fresh object, and the arguments of the call     *)
(***************************************************************************)
InitCall(inputs) ==
    /\ memory = NewMemory(MAX_CONVERSATION_HISTORY)
    /\ geocoding_cache = {}
    /\ pc = "idle"
    /\ req = NoRequest
    /\ attempts = <<>>
    /\ outcome = NoOutcome
    /\ call_log = <<>>
    /\ calls = 0
    /\ geocode_log = <<>>
    /\ fn_args \in {Some(a) : a \in inputs}
    /\ fn_result = None
    /\ session_state = [s \in Sessions |-> None]
    /\ app_instances = <<>>

(***************************************************************************)
(* QueryProcessor.generate_cypher_query and the Neo4jApp request built on  *)
(* it (cypher_query.py, app.py).  Lists are kept by their lengths, which   *)
(* is all the focusing logic reads.                                        *)
(***************************************************************************)
MaxCandidates == 6

\* the largest candidate count that still makes a category specific
SpecificLimit == 5

\* Python values of the apply flags: `keywords and (...)` is the empty string
\* when keywords is empty, a bool otherwise
PyStr(s) == [type |-> "str", str |-> s]
PyBool(b) == [type |-> "bool", bool |-> b]
PyTruthy(x) == IF x.type = "str" THEN x.str # "" ELSE x.bool
PyAnd(a, b) == IF PyTruthy(a) THEN b ELSE a

KeywordPhrases == {"", "keywords"}

\* what json.loads gives for the dispatcher's answer: a dict in which each of
\* the three keys is absent (None) or holds a phrase
CategorizedQueries ==
    { [ time_keywords     |-> t,
        location_keywords |-> l,
        service_keywords  |-> v,
        other_keys        |-> o ] :
        t \in {None} \cup {Some(x) : x \in KeywordPhrases},
        l \in {None} \cup {Some(x) : x \in KeywordPhrases},
        v \in {None} \cup {Some(x) : x \in KeywordPhrases},
        o \in {FALSE} }
      \cup { [ time_keywords |-> None, location_keywords |-> None,
               service_keywords |-> None, other_keys |-> TRUE ] }

\* _get_categorized_keywords: the parsed dict, or None when the LLM call or
\* json.loads raised
DispatcherAnswers == {None} \cup {Some(d) : d \in CategorizedQueries}

\* `not categorized_query` for a dict
DictIsEmpty(d) ==
    /\ IsNone(d.time_keywords)
    /\ IsNone(d.location_keywords)
    /\ IsNone(d.service_keywords)
    /\ ~d.other_keys

\* categorized_query.get(key, "")
DictGet(value) == IF IsNone(value) THEN "" ELSE value.v

\* what a finder does if it is called: raise, or return count candidates
\* (a keyword file that cannot be read leaves service_results empty: count 0)
FinderAnswers ==
    { [raises |-> TRUE, count |-> 0] }
      \cup { [raises |-> FALSE, count |-> n] : n \in 0..MaxCandidates }

\* the finder asked whatever the phrase
CandidateCount_unguarded(keywords, finder) ==
    IF ~finder.raises THEN finder.count ELSE 0

\* len(matching_times), len(matched_addresses), len(service_results): the
\* list starts empty and is assigned only if the phrase is non-empty and the
\* finder did not raise
CandidateCount(keywords, finder) ==
    IF keywords # "" /\ ~finder.raises THEN finder.count ELSE 0

\* a category with exactly SpecificLimit candidates not counted as specific
IsSpecific_strict(count) == 0 < count /\ count < SpecificLimit

IsSpecific(count) == 0 < count /\ count <= SpecificLimit

EmptyCypherQuery == [text |-> ""]

generate_cypher_query(categorized_query, time_finder, address_finder, service_finder) ==
    IF IsNone(categorized_query) \/ DictIsEmpty(categorized_query.v)
    THEN EmptyCypherQuery
    ELSE
    LET time_keywords     == DictGet(categorized_query.v.time_keywords)
        matching_times    == CandidateCount(time_keywords, time_finder)
        location_keywords == DictGet(categorized_query.v.location_keywords)
        matched_addresses == CandidateCount(location_keywords, address_finder)
        service_keywords  == DictGet(categorized_query.v.service_keywords)
        service_results   == CandidateCount(service_keywords, service_finder)
        is_time_specific  == IsSpecific(matching_times)
        is_loc_specific   == IsSpecific(matched_addresses)
        is_svc_specific   == IsSpecific(service_results)
        specific_categories_exist ==
            is_time_specific \/ is_loc_specific \/ is_svc_specific
        all_general ==
            /\ ~specific_categories_exist
            /\ matching_times > SpecificLimit
            /\ matched_addresses > SpecificLimit
            /\ service_results > SpecificLimit
        apply_time_filter ==
            IF all_general THEN PyBool(FALSE)
            ELSE PyAnd(PyStr(time_keywords),
                       PyBool(~specific_categories_exist \/ is_time_specific))
        apply_loc_filter ==
            IF all_general THEN PyBool(FALSE)
            ELSE PyAnd(PyStr(location_keywords),
                       PyBool(~specific_categories_exist \/ is_loc_specific))
        apply_svc_filter ==
            IF all_general THEN PyBool(FALSE)
            ELSE PyAnd(PyStr(service_keywords),
                       PyBool(~specific_categories_exist \/ is_svc_specific))
    IN [ text              |-> "MATCH",
         keywords          |-> [time |-> time_keywords, loc |-> location_keywords,
                                svc |-> service_keywords],
         counts            |-> [time |-> matching_times, loc |-> matched_addresses,
                                svc |-> service_results],
         apply_time_filter |-> apply_time_filter,
         apply_loc_filter  |-> apply_loc_filter,
         apply_svc_filter  |-> apply_svc_filter,
         \* a filter line is uncommented when its flag is set and there is
         \* something to put in it
         time_filter       |-> PyTruthy(apply_time_filter) /\ matching_times > 0,
         loc_filter        |-> PyTruthy(apply_loc_filter) /\ matched_addresses > 0,
         svc_filter        |-> PyTruthy(apply_svc_filter) ]

\* Neo4jApp.execute_cypher_query: the records, [] when the driver raised
Neo4jAnswers == {"records", "empty", "error"}
Neo4jApp_execute_cypher_query(answer) ==
    IF answer = "records" THEN "records" ELSE "empty"

\* Neo4jApp.polish_results_with_llm
PolishAnswers == {"text", "error"}
polish_results_with_llm(results, answer) ==
    IF results = "empty" THEN "no_results_message"
    ELSE IF answer = "text" THEN "polished_text"
    ELSE "make_request_more_specific"

CypherInputs ==
    [ categorized_query : DispatcherAnswers,
      time_finder       : FinderAnswers,
      address_finder    : FinderAnswers,
      service_finder    : FinderAnswers ]

\* Neo4jApp.process_user_request_for_streamlit(user_query)
Neo4jApp_process_user_request_for_streamlit ==
    /\ IsNone(fn_result)
    /\ \E neo4j \in Neo4jAnswers, polish \in PolishAnswers :
          LET a            == fn_args.v
              cypher_query == generate_cypher_query(a.categorized_query, a.time_finder,
                                                    a.address_finder, a.service_finder)
              raw_results  == Neo4jApp_execute_cypher_query(neo4j)
          IN fn_result' =
                IF cypher_query.text = ""
                THEN Some([ cypher_query |-> cypher_query,
                            executed     |-> FALSE,
                            response     |-> "could_not_understand" ])
                ELSE Some([ cypher_query |-> cypher_query,
                            executed     |-> TRUE,
                            response     |-> polish_results_with_llm(raw_results, polish) ])
    /\ UNCHANGED <<memory, geocoding_cache, pc, req, attempts, outcome, call_log, calls,
                   geocode_log, fn_args, session_state, app_instances>>

SpecCypher == InitCall(CypherInputs) /\ [][Neo4jApp_process_user_request_for_streamlit]_vars

(***************************************************************************)
(* QueryService._normalize_service_keywords applied to any text            *)
(***************************************************************************)
MaxTextLen == 2

\* words that exercise the table: keys, plurals that contain a key, the two
\* phrase keys, and words that are left alone
NormalizerWords ==
    { "wifi", "meals", "quiet", "spaces", "space", "sober", "living", "printing",
      "programming", "studying", "near", "library" }

NormalizerTexts == UNION { [1..n -> NormalizerWords] : n \in 0..MaxTextLen }

NormalizeServiceKeywordsCall ==
    /\ IsNone(fn_result)
    /\ fn_result' = Some(normalize_service_keywords(fn_args.v))
    /\ UNCHANGED <<memory, geocoding_cache, pc, req, attempts, outcome, call_log, calls,
                   geocode_log, fn_args, session_state, app_instances>>

SpecNormalize == InitCall(NormalizerTexts) /\ [][NormalizeServiceKeywordsCall]_vars

(***************************************************************************)
(* QueryService._extract_service_keywords / _get_primary_service_keyword   *)
(***************************************************************************)
\* words of the normalized texts given to _get_primary_service_keyword
ServiceWords == { "music", "cooking", "film", "wi-fi", "print", "book", "library" }

ServiceTexts == UNION { [1..n -> ServiceWords] : n \in 0..MaxTextLen }

\* self.service_synonyms in insertion order, the categories that a text over
\* ServiceWords can hit
service_synonyms ==
    << [category |-> <<"wi-fi">>,
        synonyms |-> << <<"wifi">>, <<"wi-fi">>, <<"internet">>, <<"wireless">> >>],
       [category |-> <<"print">>,
        synonyms |-> << <<"print">>, <<"printing">>, <<"printer">> >>],
       [category |-> <<"book">>,
        synonyms |-> << <<"book">>, <<"books">>, <<"collection">>,
                        <<"large", "collection">> >>],
       [category |-> <<"music">>,
        synonyms |-> << <<"music">>, <<"music", "classes">>, <<"arts">> >>],
       [category |-> <<"cooking">>,
        synonyms |-> << <<"cooking">>, <<"cooking", "classes">>, <<"culinary">> >>],
       [category |-> <<"film">>,
        synonyms |-> << <<"film">>, <<"movies">>, <<"foreign", "film">>, <<"video">> >>] >>

\* direct_service_words, the entries that a text over ServiceWords can hit
direct_service_words == << <<"wi-fi">>, <<"print">>, <<"book">> >>

\* priority_order, the entries that can be candidates here
priority_order == << <<"wi-fi">>, <<"print">>, <<"book">> >>

SeqToSet(xs) == { xs[i] : i \in 1..Len(xs) }

\* the first loop of _extract_service_keywords from category n on
RECURSIVE CategoryKeywords(_, _)
CategoryKeywords(query, n) ==
    IF n > Len(service_synonyms) THEN <<>>
    ELSE (IF \E j \in 1..Len(service_synonyms[n].synonyms) :
                 OccursIn(service_synonyms[n].synonyms[j], query)
          THEN <<service_synonyms[n].category>> ELSE <<>>)
         \o CategoryKeywords(query, n + 1)

\* the second loop, from direct word n on
RECURSIVE DirectKeywords(_, _)
DirectKeywords(query, n) ==
    IF n > Len(direct_service_words) THEN <<>>
    ELSE (IF OccursIn(direct_service_words[n], query)
          THEN <<direct_service_words[n]>> ELSE <<>>)
         \o DirectKeywords(query, n + 1)

\* keywords + direct_keywords, in insertion order
InsertionOrder(query) == CategoryKeywords(query, 1) \o DirectKeywords(query, 1)

\* list(set(...)): the orders in which a set of strings can be iterated; the
\* order is fixed by the string hash seed of the running process
SetOrders(S) ==
    { f \in [1..Cardinality(S) -> S] : \A i, j \in 1..Cardinality(S) : f[i] = f[j] => i = j }

\* the list returned in the order of insertion, duplicates dropped
RECURSIVE Dedup(_)
Dedup(xs) ==
    IF xs = <<>> THEN <<>>
    ELSE LET rest == Dedup(SubSeq(xs, 1, Len(xs) - 1))
         IN IF xs[Len(xs)] \in SeqToSet(rest) THEN rest ELSE Append(rest, xs[Len(xs)])

\* _extract_service_keywords(query) in a process whose hash seed makes sets
\* of strings iterate in hash_order: the members of the set, in that order
extract_service_keywords(query, hash_order) ==
    LET all_keywords == SeqToSet(InsertionOrder(query))
        Member(k)    == k \in all_keywords
    IN SelectSeq(hash_order, Member)

RECURSIVE FirstPriority(_, _)
FirstPriority(keywords, n) ==
    IF n > Len(priority_order) THEN None
    ELSE IF priority_order[n] \in SeqToSet(keywords) THEN Some(priority_order[n])
    ELSE FirstPriority(keywords, n + 1)

\* _get_primary_service_keyword(query)
get_primary_service_keyword(query, hash_order) ==
    LET keywords == extract_service_keywords(query, hash_order)
    IN IF keywords = <<>> THEN None
       ELSE IF ~IsNone(FirstPriority(keywords, 1)) THEN FirstPriority(keywords, 1)
       ELSE Some(keywords[1])

\* the same text evaluated twice in one process and once in another one
GetPrimaryServiceKeywordCall ==
    /\ IsNone(fn_result)
    /\ \E this_run, other_run \in SetOrders(SeqToSet(InsertionOrder(fn_args.v))) :
          fn_result' =
              Some([ candidates |-> Dedup(InsertionOrder(fn_args.v)),
                     first      |-> get_primary_service_keyword(fn_args.v, this_run),
                     second     |-> get_primary_service_keyword(fn_args.v, this_run),
                     other_run  |-> get_primary_service_keyword(fn_args.v, other_run) ])
    /\ UNCHANGED <<memory, geocoding_cache, pc, req, attempts, outcome, call_log, calls,
                   geocode_log, fn_args, session_state, app_instances>>

SpecPrimary == InitCall(ServiceTexts) /\ [][GetPrimaryServiceKeywordCall]_vars

(***************************************************************************)
(* Metrics of a request whose records come from a later attempt            *)
(* (process_query, _extract_metrics_from_result, _combine_metrics,         *)
(* _combine_token_usage).  Durations are whole clock ticks.                *)
(***************************************************************************)
MaxMetric == 1

\* a key of a dict that is absent, or holds None, is None here
\* x or y
PyOr(x, y) == IF ~IsNone(x) /\ x.v # 0 THEN x ELSE y
\* dict.get(key, default)
GetOr(value, default) == IF IsNone(value) THEN default ELSE value.v

\* first_token_time of an attempt: None when the raw LLM call raised, else
\* the difference of two time.time() readings
FirstTokenTimes == {None} \cup {Some(t) : t \in 0..MaxMetric}

\* the dict an attempt returns when it ran to its end.  generation_time is
\* llm_duration - (first_token_time or 0); only the later attempts measure a
\* spatial_duration
AttemptMetrics(stage) ==
    { [ neo4j_duration   |-> Some(d),
        llm_duration     |-> Some(d + 1),
        spatial_duration |-> IF stage = "default" THEN None ELSE Some(d),
        token_usage      |-> Some([total_tokens |-> 2 * t + 1, input_tokens |-> t + 1,
                                   output_tokens |-> t]),
        first_token_time |-> f,
        generation_time  |-> Some(d + 1 - GetOr(PyOr(f, Some(0)), 0)) ] :
        d \in 0..MaxMetric, t \in 0..MaxMetric, f \in FirstTokenTimes }

\* the dict returned by the except branch of the expanded-radius attempt
FailedAttemptMetrics ==
    [ neo4j_duration   |-> Some(0),
      llm_duration     |-> Some(0),
      spatial_duration |-> Some(0),
      token_usage      |-> None,
      first_token_time |-> None,
      generation_time  |-> None ]

NoTokenUsage == [total_tokens |-> 0, input_tokens |-> 0, output_tokens |-> 0]

extract_metrics_from_result(result) ==
    [ neo4j_duration   |-> GetOr(result.neo4j_duration, 0),
      llm_duration     |-> GetOr(result.llm_duration, 0),
      spatial_duration |-> GetOr(result.spatial_duration, 0),
      token_usage      |-> GetOr(result.token_usage, NoTokenUsage),
      first_token_time |-> result.first_token_time,
      generation_time  |-> result.generation_time ]

combine_token_usage(usage1, usage2) ==
    [ total_tokens  |-> usage1.total_tokens + usage2.total_tokens,
      input_tokens  |-> usage1.input_tokens + usage2.input_tokens,
      output_tokens |-> usage1.output_tokens + usage2.output_tokens ]

combine_metrics(metrics1, metrics2) ==
    [ neo4j_duration   |-> metrics1.neo4j_duration + metrics2.neo4j_duration,
      llm_duration     |-> metrics1.llm_duration + metrics2.llm_duration,
      spatial_duration |-> metrics1.spatial_duration + metrics2.spatial_duration,
      token_usage      |-> combine_token_usage(metrics1.token_usage, metrics2.token_usage),
      first_token_time |-> PyOr(metrics1.first_token_time, metrics2.first_token_time),
      generation_time  |-> Some(GetOr(PyOr(metrics1.generation_time, Some(0)), 0)
                                + GetOr(PyOr(metrics2.generation_time, Some(0)), 0)) ]

\* the attempts of a request answered by the expanded-radius attempt, or by
\* the closest-match attempt after the expanded one found nothing or raised
MetricsInputs ==
    { <<q, e>> : q \in AttemptMetrics("default"), e \in AttemptMetrics("expanded") }
      \cup { <<q, e, c>> : q \in AttemptMetrics("default"),
                           e \in AttemptMetrics("expanded") \cup {FailedAttemptMetrics},
                           c \in AttemptMetrics("closest") }

\* process_query from the replacement of query_result by the later attempt's
\* result to the metric fields of the returned dict
CombineAttemptMetrics ==
    /\ IsNone(fn_result)
    /\ LET a == fn_args.v
           combined_metrics ==
               IF Len(a) = 2
               THEN combine_metrics(extract_metrics_from_result(a[1]),
                                    extract_metrics_from_result(a[2]))
               ELSE combine_metrics(combine_metrics(extract_metrics_from_result(a[1]),
                                                    extract_metrics_from_result(a[2])),
                                    extract_metrics_from_result(a[3]))
       IN fn_result' =
             Some([ neo4j_duration   |-> combined_metrics.neo4j_duration,
                    llm_duration     |-> combined_metrics.llm_duration,
                    spatial_duration |-> combined_metrics.spatial_duration,
                    token_usage      |-> combined_metrics.token_usage,
                    first_token_time |-> combined_metrics.first_token_time,
                    generation_time  |-> combined_metrics.generation_time ])
    /\ UNCHANGED <<memory, geocoding_cache, pc, req, attempts, outcome, call_log, calls,
                   geocode_log, fn_args, session_state, app_instances>>

SpecMetrics == InitCall(MetricsInputs) /\ [][CombineAttemptMetrics]_vars

(***************************************************************************)
(* QueryService._find_closest_organization_with_enhanced_metrics           *)
(* (query_service.py).  The spatial context is kept as the list of its     *)
(* distance-threshold mentions, a structured query text as the list of its *)
(* clauses; the graph holds `rows` matching organizations.                 *)
(***************************************************************************)
MaxRows == 2

\* create_spatial_context(user_coordinates, distance_threshold, location_text):
\* the three places where the f-string prints the threshold
create_spatial_context(user_coordinates, distance_threshold, location_text) ==
    << [form |-> "DISTANCE THRESHOLD: _ miles", value |-> distance_threshold],
       [form |-> "distance_threshold = _",      value |-> distance_threshold],
       [form |-> "distance_miles <= _",         value |-> distance_threshold] >>

\* str.replace of one literal threshold mention by its no-limit form
ReplaceMention(context, form, value, replacement) ==
    [ i \in DOMAIN context |->
        IF context[i].form = form /\ context[i].value = value
        THEN [form |-> replacement, value |-> NO_LIMIT_THRESHOLD]
        ELSE context[i] ]

\* closest_spatial_context: the chain of replacements of the default and the
\* expanded threshold (the "(expanded from ...)" heading is a mention of its own)
closest_spatial_context(spatial_context) ==
    LET c1 == ReplaceMention(spatial_context, "DISTANCE THRESHOLD: _ miles",
                             DEFAULT_DISTANCE_THRESHOLD,
                             "DISTANCE THRESHOLD: No limit (finding closest organization)")
        c2 == ReplaceMention(c1, "DISTANCE THRESHOLD: _ miles (expanded from _ miles)",
                             EXPANDED_DISTANCE_THRESHOLD,
                             "DISTANCE THRESHOLD: No limit (finding closest organization)")
        c3 == ReplaceMention(c2, "distance_threshold = _", DEFAULT_DISTANCE_THRESHOLD,
                             "distance_threshold = 999999")
        c4 == ReplaceMention(c3, "distance_threshold = _", EXPANDED_DISTANCE_THRESHOLD,
                             "distance_threshold = 999999")
        c5 == ReplaceMention(c4, "distance_miles <= _", DEFAULT_DISTANCE_THRESHOLD, "true")
    IN  ReplaceMention(c5, "distance_miles <= _", EXPANDED_DISTANCE_THRESHOLD, "true")

\* clauses the generator can end its text with
OrderClauses == { "ORDER BY distance_miles ASC", "ORDER BY distance_miles",
                  "order by distance_miles asc" }
LimitClauses == { "LIMIT 1", "LIMIT 2", "limit 2" }
ClosestCypherTexts ==
    { <<"MATCH ... RETURN ...">> \o o \o l :
        o \in {<<>>} \cup { <<c>> : c \in OrderClauses },
        l \in {<<>>} \cup { <<c>> : c \in LimitClauses } }

\* 'LIMIT' in closest_cypher_query.upper()
ContainsLimit(cypher) == \E i \in DOMAIN cypher : cypher[i] \in LimitClauses
\* 'ORDER BY' in closest_cypher_query.upper()
ContainsOrderBy(cypher) == \E i \in DOMAIN cypher : cypher[i] \in OrderClauses

RECURSIVE ReplaceClause(_, _, _)
ReplaceClause(cypher, clause, replacement) ==
    IF cypher = <<>> THEN <<>>
    ELSE (IF Head(cypher) = clause THEN replacement ELSE <<Head(cypher)>>)
         \o ReplaceClause(Tail(cypher), clause, replacement)

\* closest_cypher_query after the LIMIT 1 enforcement
closest_cypher_query(cypher) ==
    IF ~ContainsLimit(cypher)
    THEN IF ContainsOrderBy(cypher)
         THEN ReplaceClause(cypher, "ORDER BY distance_miles ASC",
                            <<"ORDER BY distance_miles ASC", "LIMIT 1">>)
         ELSE Append(cypher, "LIMIT 1")
    ELSE cypher

\* neo4j_client.query: the graph returns its matching rows, cut by the LIMIT
\* clause of the query (Cypher keywords are case-insensitive)
RowLimit(cypher) ==
    IF \E i \in DOMAIN cypher : cypher[i] = "LIMIT 1" THEN 1
    ELSE IF \E i \in DOMAIN cypher : cypher[i] \in {"LIMIT 2", "limit 2"} THEN 2
    ELSE MaxRows + 1
Min(a, b) == IF a <= b THEN a ELSE b
closest_results(cypher, rows) == Min(rows, RowLimit(cypher))

\* the spatial queries whose closest-match attempt is run
ClosestQueries ==
    { <<"library", "near", "city", "hall">>,
      <<"library", "in", "the", "vicinity", "of", "city", "hall">>,
      <<"library", "within", "1", "mile", "of", "city", "hall">>,
      <<"library", "within", "5", "blocks", "of", "city", "hall">> }

ClosestInputs ==
    [ query : ClosestQueries, text : ClosestCypherTexts, rows : 0..MaxRows,
      raises : BOOLEAN ]

\* _find_closest_organization_with_enhanced_metrics(query, spatial_context, ...)
find_closest_organization_with_enhanced_metrics(a) ==
    LET context == create_spatial_context(<<0, 0>>, get_distance_threshold(a.query),
                                          <<"city", "hall">>)
        executed == closest_cypher_query(a.text)
    IN  IF a.raises
        THEN [ success |-> FALSE, results |-> None, closest_search |-> TRUE,
               context |-> closest_spatial_context(context), cypher_query |-> executed ]
        ELSE [ success |-> closest_results(executed, a.rows) > 0,
               results |-> Some(closest_results(executed, a.rows)),
               closest_search |-> TRUE,
               context |-> closest_spatial_context(context), cypher_query |-> executed ]

FindClosestCall ==
    /\ ~IsNone(fn_args)
    /\ IsNone(fn_result)
    /\ fn_result' = Some(find_closest_organization_with_enhanced_metrics(fn_args.v))
    /\ UNCHANGED <<memory, geocoding_cache, pc, req, attempts, outcome, call_log, calls,
                   geocode_log, fn_args, session_state, app_instances>>

SpecClosest == InitCall(ClosestInputs) /\ [][FindClosestCall]_vars

(***************************************************************************)
(* Browser sessions (streamlit_app.py): every script run fetches the       *)
(* session's OrganizationInfoApp from st.session_state and hands the       *)
(* prompt to it.  A request is taken as a whole, with the records its last *)
(* retrieval attempt ended with.                                           *)
(***************************************************************************)
\* OrganizationInfoApp.__init__: the objects a new instance creates
OrganizationInfoApp(session_id) ==
    [ session_id      |-> session_id,
      memory          |-> NewMemory(MaxHistory),
      geocoding_cache |-> {} ]

\* one instance kept for the whole process
get_session_app_shared(state, instances, s) ==
    IF instances # <<>>
    THEN [ session_state |-> [state EXCEPT ![s] = Some(1)], app_instances |-> instances ]
    ELSE [ session_state |-> [state EXCEPT ![s] = Some(1)],
           app_instances |-> <<OrganizationInfoApp(1)>> ]

\* get_session_app(): `if 'app_instance' not in st.session_state` a new
\* object is created and stored; the session's object is returned
get_session_app(state, instances, s) ==
    IF ~IsNone(state[s])
    THEN [ session_state |-> state, app_instances |-> instances ]
    ELSE [ session_state |-> [state EXCEPT ![s] = Some(Len(instances) + 1)],
           app_instances |-> Append(instances, OrganizationInfoApp(Len(instances) + 1)) ]

\* how the retrieval attempts of a request can end: the records of the
\* producing attempt and its stage
FinalAttempts ==
    { [results |-> Some(<<>>), stage |-> "default"] }
      \cup [ results : { Some(rows) : rows \in ResultLists },
             stage   : {"default", "expanded", "closest"} ]

\* the prompts typed in the sessions
SessionQueries ==
    { <<"free", "wifi", "near", "city", "hall">>,
      <<"library", "near", "xyzzy">>,
      <<"what", "are", "their", "hours", "?">> }

\* spatial_info as the producing attempt leaves it
FinalSpatialInfo(spatial_info, final) ==
    IF ~Truthy(final.results) \/ final.stage = "default" THEN spatial_info
    ELSE IF final.stage = "expanded"
         THEN SetThreshold(spatial_info, Some(EXPANDED_DISTANCE_THRESHOLD))
    ELSE SetThreshold(spatial_info, None)

\* OrganizationInfoApp.process_user_request_for_streamlit: what one request
\* does to the objects of its app instance
OrganizationInfoApp_process_user_request_for_streamlit(app, q, user_location, provider, final) ==
    LET normalized_query == NormalizedQuery[q]
        use_memory       == should_use_memory(app.memory, normalized_query)
        processed_query  == IF use_memory
                            THEN substitute_pronouns(app.memory, normalized_query)
                            ELSE normalized_query
        coordinates      == Route[q][user_location]
        spatial_result   == process_spatial_query(app.geocoding_cache, processed_query, provider)
        location_text    == IF coordinates.v # CITY_HALL_COORDINATES
                            THEN <<"user", "location">>
                            ELSE <<"city", "hall", "(default)">>
    IN  IF q \in special_commands \/ UsesCachedResults(app.memory, q) THEN app
        ELSE IF ~IsNone(coordinates)
        THEN [app EXCEPT !.memory =
                UpdateMemory(@, q, final.results, use_memory,
                             FinalSpatialInfo(
                                 create_spatial_info(location_text, coordinates.v,
                                                     Some(DEFAULT_DISTANCE_THRESHOLD)),
                                 final))]
        ELSE IF ~IsSpatialQuery[processed_query]
        THEN [app EXCEPT !.memory = UpdateMemory(@, q, final.results, use_memory, None)]
        ELSE IF ~spatial_result.success
        THEN [app EXCEPT !.geocoding_cache = spatial_result.cache]
        ELSE [app EXCEPT
                !.geocoding_cache = spatial_result.cache,
                !.memory = UpdateMemory(@, q, final.results, use_memory,
                                        FinalSpatialInfo(spatial_result.spatial_info, final))]

\* process_user_request_for_streamlit: raw_data is read from the memory after
\* the request, `[]` unless memory.current_context is non-empty
raw_data(mem) == IF Truthy(mem.current_context) THEN mem.current_context.v ELSE <<>>

\* one run of the script for a session with a prompt
ScriptRun ==
    \E s \in Sessions, q \in SessionQueries, user_location \in UserLocations,
       provider \in ProviderAnswers, final \in FinalAttempts :
        LET got == get_session_app(session_state, app_instances, s)
            id  == got.session_state[s].v
        IN /\ calls < MaxRequests
           /\ calls' = calls + 1
           /\ fn_args' = Some([session |-> s, query |-> q])
           /\ session_state' = got.session_state
           /\ app_instances' =
                [got.app_instances EXCEPT ![id] =
                    OrganizationInfoApp_process_user_request_for_streamlit(
                        @, q, user_location, provider, final)]
           /\ UNCHANGED <<memory, geocoding_cache, pc, req, attempts, outcome, call_log,
                          geocode_log, fn_result>>

SpecSessions == Init /\ [][ScriptRun]_vars

(***************************************************************************)
(* Properties                                                              *)
(***************************************************************************)
RetrievalPaths == { "process_query", "process_query_with_coordinates" }

\* the request in progress has made its default-radius attempt
AfterDefaultAttempt == pc \in { "expanded", "closest", "finish" }

\* a ConversationMemory that holds nothing
MemoryIsEmpty(mem) ==
    /\ mem.conversation_history = <<>>
    /\ IsNone(mem.current_context)
    /\ IsNone(mem.last_query)
    /\ mem.last_organizations = <<>>
    /\ IsNone(mem.last_spatial_info)

\* after an empty default-radius attempt: one expanded-radius attempt comes
\* next, and after an empty expanded-radius attempt one closest-match attempt
ExpansionSequence ==
    /\ \/ pc = "expanded" /\ Len(attempts) = 1
       \/ Len(attempts) >= 2 /\ attempts[2].stage = "expanded"
    /\ Cardinality({ i \in 1..Len(attempts) : attempts[i].stage = "expanded" }) <= 1
    /\ Cardinality({ i \in 1..Len(attempts) : attempts[i].stage = "closest" }) <= 1
    /\ (Len(attempts) >= 2 /\ attempts[2].result = "empty") =>
          \/ pc = "closest" /\ Len(attempts) = 2
          \/ Len(attempts) = 3 /\ attempts[3].stage = "closest"

\* C1 as stated: for every spatial query whose default-radius attempt returns
\* zero records, whatever distance threshold it resolves to, exactly one
\* expanded-radius attempt is made before any closest-match attempt, and one
\* closest-match attempt if the expanded-radius attempt is empty too.
C1_ExpansionForEveryThreshold ==
    (AfterDefaultAttempt /\ req.is_spatial_query /\ attempts[1].result = "empty")
        => ExpansionSequence

\* C1 amended: the same, for the spatial queries whose resolved distance
\* threshold is below the expanded threshold (which is every query of
\* process_query_with_coordinates).
C1_ExpansionBelowExpandedThreshold ==
    ( /\ AfterDefaultAttempt
      /\ req.is_spatial_query
      /\ attempts[1].result = "empty"
      /\ req.distance_threshold.v < EXPANDED_DISTANCE_THRESHOLD )
        => ExpansionSequence

C1_Witness ==
    /\ pc = "finish"
    /\ req.path = "process_query"
    /\ req.is_spatial_query
    /\ Len(attempts) = 3
    /\ attempts[1].result = "empty"
    /\ attempts[2] = [stage |-> "expanded", result |-> "empty"]
    /\ attempts[3].stage = "closest"

StageOrder == << "default", "expanded", "closest" >>

\* how far a request has come
StageRank ==
    [ p \in { "spatial", "default", "expanded", "closest", "finish", "idle" } |->
        CASE p = "spatial"  -> 0
          [] p = "default"  -> 1
          [] p = "expanded" -> 2
          [] p = "closest"  -> 3
          [] p = "finish"   -> 4
          [] p = "idle"     -> 5 ]

\* C2: one request makes at most three retrieval attempts, in the order
\* default-radius, expanded-radius, closest-match, each stage at most once;
\* every step of a request moves it forward, so it returns.
C2_AtMostThreeAttemptsInOrder ==
    /\ [](/\ Len(attempts) <= 3
          /\ \A i \in 1..Len(attempts) : \E j \in i..3 : attempts[i].stage = StageOrder[j]
          /\ \A i, j \in 1..Len(attempts) :
                i < j => \E a, b \in 1..3 : /\ a < b
                                            /\ attempts[i].stage = StageOrder[a]
                                            /\ attempts[j].stage = StageOrder[b])
    /\ [][pc # "idle" => StageRank[pc'] > StageRank[pc]]_vars

C2_Witness ==
    /\ pc = "idle"
    /\ outcome.kind \in RetrievalPaths
    /\ Len(attempts) = 3
    /\ attempts[3].result = "error"

\* C3: when the default-radius query fails with a backend error the outcome
\* is a failure that carries an error string.
C3_BackendErrorIsReportedAsFailure ==
    ( /\ pc = "idle"
      /\ outcome.kind \in RetrievalPaths
      /\ attempts # <<>>
      /\ attempts[1] = [stage |-> "default", result |-> "error"] )
        => (~outcome.success /\ Truthy(outcome.error))

\* C4: an attempt that failed with an error is the last attempt of its request.
C4_NoAttemptAfterError ==
    \A i \in 1..Len(attempts) : attempts[i].result = "error" => i = Len(attempts)

\* C5: after a fresh query whose default-radius, expanded-radius and
\* closest-match attempts all returned zero records, ConversationMemory
\* holds nothing.
C5_FreshEmptyQueryClearsMemory ==
    ( /\ pc = "idle"
      /\ outcome.kind \in RetrievalPaths
      /\ ~outcome.used_memory
      /\ Len(attempts) = 3
      /\ \A i \in 1..3 : attempts[i].result = "empty" )
        => MemoryIsEmpty(memory)

C5_Witness ==
    /\ pc = "idle"
    /\ outcome.kind = "process_query"
    /\ ~outcome.used_memory
    /\ Len(attempts) = 3
    /\ \A i \in 1..3 : attempts[i].result = "empty"
    /\ MemoryIsEmpty(memory)
    /\ geocoding_cache # {}

\* the distance threshold of the attempt that produced the records
ProducingThreshold ==
    CASE attempts[Len(attempts)].stage = "default"  -> req.distance_threshold
      [] attempts[Len(attempts)].stage = "expanded" -> Some(EXPANDED_DISTANCE_THRESHOLD)
      [] attempts[Len(attempts)].stage = "closest"  -> None

\* C6: when a request that was not treated as a follow-up returns a non-empty
\* record list, exactly one turn is appended to ConversationMemory (the
\* oldest is dropped at the bound), and the newest turn holds this query,
\* these records and the spatial info of the attempt that produced them.
C6_FreshResultsAppendOneTurn ==
    [][ ( /\ pc = "finish"
          /\ ~req.use_memory
          /\ Truthy(req.query_result.results) )
        => LET old  == memory.conversation_history
               new  == memory'.conversation_history
               turn == new[Len(new)]
           IN /\ new # <<>>
              /\ SubSeq(new, 1, Len(new) - 1) =
                    (IF Len(old) < memory.max_history THEN old ELSE Tail(old))
              /\ turn.query = req.user_query
              /\ turn.results = req.query_result.results
              /\ outcome'.results = turn.results
              /\ IsNone(turn.spatial_info) <=> ~req.is_spatial_query
              /\ ~IsNone(turn.spatial_info) =>
                    /\ turn.spatial_info.v.distance_threshold = ProducingThreshold
                    /\ turn.spatial_info.v.coordinates = req.user_coordinates.v
      ]_vars

C6_Witness ==
    /\ pc = "idle"
    /\ outcome.kind \in RetrievalPaths
    /\ ~outcome.used_memory
    /\ Truthy(outcome.results)
    /\ Len(attempts) = 2
    /\ attempts[2] = [stage |-> "expanded", result |-> "records"]
    /\ memory.conversation_history # <<>>
    /\ LET turn == memory.conversation_history[Len(memory.conversation_history)]
       IN /\ turn.results = outcome.results
          /\ turn.spatial_info.v.distance_threshold = Some(EXPANDED_DISTANCE_THRESHOLD)

\* C7 as stated: no retrieval attempt is made for a request for which
\* should_use_memory was true.
C7_MemoryDecisionSkipsRetrieval ==
    (pc # "idle" /\ attempts # <<>>) => ~req.use_memory

\* C7 amended: a request whose query is a simple follow-up and for which
\* should_use_memory is true never enters process_query or
\* process_query_with_coordinates; it is answered from the stored results of
\* the previous turn, without a retrieval attempt.
C7_SimpleFollowupAnsweredFromMemory ==
    /\ pc # "idle" =>
          ~(is_simple_followup(req.user_query) /\ should_use_memory(memory, req.user_query))
    /\ outcome.kind = "cached" =>
          /\ attempts = <<>>
          /\ Truthy(outcome.results)
          /\ outcome.results = memory.current_context

C7_Witness ==
    /\ pc = "idle"
    /\ outcome.kind = "cached"
    /\ outcome.used_memory
    /\ Truthy(outcome.results)
    /\ attempts = <<>>

\* the turn add_interaction stores for one logged call
LoggedTurn(call) ==
    [ query              |-> call.query,
      results            |-> call.results,
      organization_names |-> OrganizationNames(call.results.v),
      spatial_info       |-> call.spatial_info ]

\* C8: the history holds at most max_history turns; once more than
\* max_history add_interaction calls were made in a row it holds exactly
\* max_history turns, which are the most recent ones in insertion order.
C8_HistoryBoundedFifo ==
    LET N == memory.max_history
        h == memory.conversation_history
        k == Len(call_log)
    IN /\ Len(h) <= N
       /\ k > N => Len(h) = N
       /\ k <= N => Len(h) = k
       /\ \A i \in 1..Len(h) : h[i] = LoggedTurn(call_log[k - Len(h) + i])

C8_Witness ==
    /\ memory.max_history = 2
    /\ Len(call_log) = 3
    /\ Len(memory.conversation_history) = 2
    /\ call_log[1] # call_log[2]
    /\ call_log[2] # call_log[3]
    /\ memory.conversation_history[1].query = call_log[2].query
    /\ memory.conversation_history[2].query = call_log[3].query

\* no query is treated as a follow-up by this memory
NoFollowup(mem) ==
    \A q \in UserQueries : /\ ~should_use_memory(mem, q)
                           /\ ~should_use_memory(mem, NormalizedQuery[q])

\* C9: should_use_memory is false for every query while memory is empty, and
\* after a fresh request that ended with no records no query is treated as a
\* follow-up.
C9_NoFollowupAfterEmptyResult ==
    /\ [](MemoryIsEmpty(memory) => NoFollowup(memory))
    /\ [][ ( /\ pc # "idle"
             /\ pc' = "idle"
             /\ ~req.use_memory
             /\ ~Truthy(outcome'.results) )
           => NoFollowup(memory') ]_vars

\* C10: a spatial query whose location cannot be extracted or geocoded still
\* goes on to the retrieval.
C10_SpatialFailureStillRetrieves ==
    [][pc = "spatial" => pc' = "default"]_vars

\* C11: geocode_location calls the provider at most once per phrase: after
\* a call that asked the provider, whatever it answered, later calls for the
\* same phrase do not ask it again, and a failed phrase keeps returning None.
C11_ProviderCalledOncePerPhrase ==
    \A i, j \in 1..Len(geocode_log) :
        ( /\ i < j
          /\ geocode_log[i].location_text = geocode_log[j].location_text
          /\ geocode_log[i].provider_called )
        => /\ ~geocode_log[j].provider_called
           /\ IsNone(geocode_log[i].coords) => IsNone(geocode_log[j].coords)

\* C12: the cache is consulted first, then the gazetteer, and the provider
\* only when neither has coordinates; a phrase that contains a landmark gets
\* the gazetteer's coordinates without a call of the provider.
C12_CacheThenGazetteerThenProvider ==
    \A i \in 1..Len(geocode_log) :
        LET e        == geocode_log[i]
            landmark == FirstLandmarkIn(e.location_text, 1)
        IN /\ ~IsNone(e.cached) => (~e.provider_called /\ e.coords = e.cached)
           /\ ~IsNone(landmark) => (~e.provider_called /\ e.coords = Some(landmark.v.coords))
           /\ e.provider_called <=> (IsNone(e.cached) /\ IsNone(landmark))

C12_Witness ==
    /\ Len(geocode_log) >= 3
    /\ geocode_log[1].location_text = <<"fishtown", "library">>
    /\ IsNone(geocode_log[1].cached)
    /\ geocode_log[1].coords = Some(<<"39.9759", "-75.1370">>)
    /\ geocode_log[2].location_text = <<"fishtown", "library">>
    /\ ~IsNone(geocode_log[2].cached)
    /\ geocode_log[3].provider_called

\* C13: when the provider was asked and raised or found no match,
\* geocode_location returns None and the cache is as it was, without an
\* entry for that phrase.
C13_ProviderFailureReturnsNone ==
    [][ Len(geocode_log') > Len(geocode_log) =>
          LET e == geocode_log'[Len(geocode_log')]
          IN (e.provider_called /\ e.provider \in {"not_found", "error"})
                => /\ IsNone(e.coords)
                   /\ geocoding_cache' = geocoding_cache
                   /\ ~GeocodeCached(geocoding_cache', e.location_text) ]_vars

C13_Witness ==
    /\ Len(geocode_log) >= 2
    /\ geocoding_cache # {}
    /\ LET e == geocode_log[Len(geocode_log)]
       IN /\ e.provider_called
          /\ e.provider = "error"
          /\ IsNone(e.coords)
          /\ ~GeocodeCached(geocoding_cache, e.location_text)

\* C14: the three apply flags of generate_cypher_query follow the reference
\* rule: a category is specific iff it has 1 to 5 candidates; its flag is set
\* iff its phrase is non-empty and either no category is specific or it is
\* specific itself; and no flag is set when no category is specific and all
\* three have more than 5 candidates.
C14_ApplyFlagsFollowReferenceRule ==
    (~IsNone(fn_result) /\ fn_result.v.cypher_query.text # "") =>
        LET q           == fn_result.v.cypher_query
            specific(c) == 0 < q.counts[c] /\ q.counts[c] <= 5
            anySpecific == specific("time") \/ specific("loc") \/ specific("svc")
            allGeneral  == /\ ~anySpecific
                           /\ q.counts.time > 5 /\ q.counts.loc > 5 /\ q.counts.svc > 5
            apply(c)    == /\ ~allGeneral
                           /\ q.keywords[c] # ""
                           /\ (~anySpecific \/ specific(c))
        IN /\ PyTruthy(q.apply_time_filter) <=> apply("time")
           /\ PyTruthy(q.apply_loc_filter) <=> apply("loc")
           /\ PyTruthy(q.apply_svc_filter) <=> apply("svc")

C14_Witness ==
    /\ ~IsNone(fn_result)
    /\ fn_result.v.cypher_query.text # ""
    /\ fn_result.v.cypher_query.counts = [time |-> 6, loc |-> 6, svc |-> 6]
    /\ ~PyTruthy(fn_result.v.cypher_query.apply_time_filter)
    /\ ~PyTruthy(fn_result.v.cypher_query.apply_loc_filter)
    /\ ~PyTruthy(fn_result.v.cypher_query.apply_svc_filter)

\* C15: whatever the finders return, a category with 1 to 5 candidates has
\* its filter applied, the all-general override included.
C15_SpecificImpliesApplied ==
    (~IsNone(fn_result) /\ fn_result.v.cypher_query.text # "") =>
        LET q == fn_result.v.cypher_query
        IN /\ (0 < q.counts.time /\ q.counts.time <= 5) => PyTruthy(q.apply_time_filter)
           /\ (0 < q.counts.loc /\ q.counts.loc <= 5) => PyTruthy(q.apply_loc_filter)
           /\ (0 < q.counts.svc /\ q.counts.svc <= 5) => PyTruthy(q.apply_svc_filter)

C15_Witness ==
    /\ ~IsNone(fn_result)
    /\ fn_result.v.cypher_query.text # ""
    /\ fn_result.v.cypher_query.counts = [time |-> 0, loc |-> 5, svc |-> 6]
    /\ fn_args.v.time_finder.count = 3
    /\ PyTruthy(fn_result.v.cypher_query.apply_loc_filter)
    /\ ~PyTruthy(fn_result.v.cypher_query.apply_svc_filter)

\* C20: when the dispatcher step raised or returned nothing usable, the
\* request is not aborted: a query with no active filter is generated and
\* executed.
C20_ClassificationFailureStillExecutes ==
    ( /\ ~IsNone(fn_result)
      /\ \/ IsNone(fn_args.v.categorized_query)
         \/ DictIsEmpty(fn_args.v.categorized_query.v) )
    => /\ fn_result.v.executed
       /\ fn_result.v.cypher_query.text # ""
       /\ ~fn_result.v.cypher_query.time_filter
       /\ ~fn_result.v.cypher_query.loc_filter
       /\ ~fn_result.v.cypher_query.svc_filter

\* C16: keyword normalization is idempotent: normalizing the text that
\* _normalize_service_keywords returned gives that text back.
C16_NormalizationIdempotent ==
    ~IsNone(fn_result) => normalize_service_keywords(fn_result.v) = fn_result.v

C16_Witness ==
    /\ fn_args = Some(<<"quiet", "spaces">>)
    /\ fn_result = Some(<<"study", "room">>)

\* C17: the primary service keyword depends on the text alone: evaluations
\* in the same process and in another process agree, and when several
\* candidates matched and none is in the priority list it is the candidate
\* inserted first.
C17_PrimaryKeywordIsFunctionOfText ==
    ~IsNone(fn_result) =>
        /\ fn_result.v.first = fn_result.v.second
        /\ fn_result.v.other_run = fn_result.v.first
        /\ ( /\ fn_result.v.candidates # <<>>
             /\ IsNone(FirstPriority(fn_result.v.candidates, 1)) )
           => fn_result.v.first = Some(fn_result.v.candidates[1])

\* C18: when the records come from the expanded-radius or closest-match
\* attempt, every additive metric of the outcome is the sum of that field
\* over the attempts made, and first_token_time is the first value in attempt
\* order that is not None.
RECURSIVE SumSeq(_)
SumSeq(xs) == IF xs = <<>> THEN 0 ELSE Head(xs) + SumSeq(Tail(xs))

SumOver(as, Field(_)) == SumSeq([i \in 1..Len(as) |-> Field(as[i])])

RECURSIVE FirstNonNull(_)
FirstNonNull(as) ==
    IF as = <<>> THEN None
    ELSE IF ~IsNone(Head(as).first_token_time) THEN Head(as).first_token_time
    ELSE FirstNonNull(Tail(as))

C19_EmptyOutcomeCarriesReason ==
    ( /\ pc = "idle"
      /\ outcome.kind \in RetrievalPaths
      /\ ~Truthy(outcome.results) )
        => (~IsNone(outcome.error) /\ outcome.error.v # "")

\* C21: the closest-match attempt returns at most one record, whatever
\* structured query text the generator produced (with or without its own
\* LIMIT or ORDER BY clause).
C21_ClosestReturnsAtMostOne ==
    (~IsNone(fn_result) /\ ~IsNone(fn_result.v.results)) => fn_result.v.results.v <= 1

\* C22: the spatial context handed to the closest-match attempt mentions no
\* distance limit: every mention of the query's threshold has been replaced
\* by the no-limit form.
C22_ClosestContextHasNoLimit ==
    ~IsNone(fn_result) =>
        \A i \in DOMAIN fn_result.v.context :
            fn_result.v.context[i].value = NO_LIMIT_THRESHOLD
\* the step makes an attempt of the given stage
MakesAttempt(stage) ==
    /\ Len(attempts') = Len(attempts) + 1
    /\ attempts'[Len(attempts')].stage = stage

\* C23: an expanded-radius attempt is made only for a spatial query whose
\* resolved distance threshold is below the expanded threshold, and only
\* after the default-radius attempt executed successfully and returned zero
\* records; a non-spatial query never gets an expanded-radius or
\* closest-match attempt.
C23_ExpandedOnlyBelowThresholdAfterEmptyDefault ==
    [][ /\ MakesAttempt("expanded") =>
            /\ req.is_spatial_query
            /\ ~IsNone(req.distance_threshold)
            /\ req.distance_threshold.v < EXPANDED_DISTANCE_THRESHOLD
            /\ attempts # <<>>
            /\ attempts[Len(attempts)] = [stage |-> "default", result |-> "empty"]
            /\ req.query_result.success
            /\ req.query_result.results = Some(<<>>)
        /\ (MakesAttempt("expanded") \/ MakesAttempt("closest")) => req.is_spatial_query
      ]_vars

\* an expanded-radius attempt has been made for a threshold parsed from the
\* text of a process_query request
C23_Witness ==
    /\ req.path = "process_query"
    /\ req.is_spatial_query
    /\ Len(attempts) = 2
    /\ attempts[2].stage = "expanded"
    /\ req.distance_threshold.v < EXPANDED_DISTANCE_THRESHOLD
\* C24: a fresh query that ends with no records because spatial resolution
\* failed (no location phrase extracted, or the phrase not geocoded) leaves
\* ConversationMemory cleared, as any other fresh query with zero results.
C24_SpatialFailureClearsMemory ==
    [][ ( /\ pc = "spatial"
          /\ pc' = "idle"
          /\ ~req.use_memory
          /\ ~outcome'.success )
        => MemoryIsEmpty(memory') ]_vars
\* the app instance a session works with, None before its first script run
AppOf(state, instances, s) ==
    IF IsNone(state[s]) THEN None ELSE Some(instances[state[s].v])

\* C25: each session owns its ConversationMemory and geocoding cache: a
\* request in one session changes neither the history, cached results, last
\* query, geocoding cache nor the should_use_memory decisions of another.
C25_SessionsAreIsolated ==
    [][ \A t \in Sessions :
          (~IsNone(fn_args') /\ fn_args'.v.session # t /\ calls' = calls + 1) =>
             /\ AppOf(session_state', app_instances', t) = AppOf(session_state, app_instances, t)
             /\ ~IsNone(AppOf(session_state, app_instances, t)) =>
                  \A q \in UserQueries :
                      should_use_memory(AppOf(session_state', app_instances', t).v.memory,
                                        NormalizedQuery[q])
                      = should_use_memory(AppOf(session_state, app_instances, t).v.memory,
                                          NormalizedQuery[q])
      ]_vars

\* two sessions hold different stored turns
C25_Witness ==
    /\ ~IsNone(session_state[1])
    /\ ~IsNone(session_state[2])
    /\ ~IsNone(app_instances[session_state[1].v].memory.last_query)
    /\ ~IsNone(app_instances[session_state[2].v].memory.last_query)
    /\ app_instances[session_state[1].v].memory.last_query
         # app_instances[session_state[2].v].memory.last_query
\* C26: ConversationMemory is changed only at the end of a request, by one
\* append or one clear; a request whose memory decision was true, whether
\* answered from the cached results or by a new retrieval, leaves history,
\* cached results, last query, organization names and spatial info as
\* they were, whatever the retrieval returns.
C26_MemoryChangedOnlyAtEndOfFreshRequest ==
    [][ /\ memory' # memory =>
            /\ pc = "finish"
            /\ pc' = "idle"
            /\ ~req.use_memory
            /\ \/ memory' = add_interaction(memory, req.user_query,
                                            req.query_result.results, req.spatial_info)
               \/ memory' = clear_memory(memory)
        /\ (pc # "idle" /\ req.use_memory) => memory' = memory
        /\ (pc = "idle" /\ outcome'.kind = "cached") => memory' = memory
      ]_vars

\* a follow-up that ran a new retrieval has returned records while memory
\* holds the turn of another query
C26_Witness ==
    /\ pc = "idle"
    /\ outcome.kind \in RetrievalPaths
    /\ outcome.used_memory
    /\ Truthy(outcome.results)
    /\ memory.conversation_history # <<>>
\* the stage of the attempt that returned records, "none" when none did
ProducingStage(log) ==
    IF \E i \in DOMAIN log : log[i].result = "records"
    THEN log[CHOOSE i \in DOMAIN log : log[i].result = "records"].stage
    ELSE "none"

\* C27: in every outcome of process_query and process_query_with_coordinates
\* the flags describe the attempt that produced the records: expanded_radius
\* exactly for the expanded-radius or closest-match attempt, closest_search
\* exactly for the closest-match attempt, spatial_info.distance_threshold the
\* threshold of the producing attempt; with no records both flags are false.
C27_FlagsDescribeProducingAttempt ==
    [][ (pc # "idle" /\ pc' = "idle") =>
          LET stage == ProducingStage(attempts')
          IN /\ Truthy(outcome'.results) <=> stage # "none"
             /\ outcome'.expanded_radius <=> stage \in {"expanded", "closest"}
             /\ outcome'.closest_search <=> stage = "closest"
             /\ ~IsNone(outcome'.spatial_info) =>
                  outcome'.spatial_info.v.distance_threshold =
                      ( IF stage = "expanded" THEN Some(EXPANDED_DISTANCE_THRESHOLD)
                        ELSE IF stage = "closest" THEN None
                        ELSE req.distance_threshold )
      ]_vars

\* a request has returned the records of its closest-match attempt
C27_Witness ==
    /\ pc = "idle"
    /\ outcome.kind \in RetrievalPaths
    /\ ProducingStage(attempts) = "closest"
    /\ outcome.closest_search
    /\ ~IsNone(outcome.spatial_info)
    /\ IsNone(outcome.spatial_info.v.distance_threshold)
\* C28: after any sequence of add_interaction and clear_memory calls the
\* summary fields agree with the history: with a non-empty history
\* last_query, current_context, last_organizations and last_spatial_info are
\* those of the newest entry; with an empty history they are empty or None.
C28_SummaryFieldsAgreeWithHistory ==
    LET h == memory.conversation_history
    IN IF h # <<>>
       THEN /\ memory.last_query = Some(h[Len(h)].query)
            /\ memory.current_context = h[Len(h)].results
            /\ memory.last_organizations = h[Len(h)].organization_names
            /\ memory.last_spatial_info = h[Len(h)].spatial_info
       ELSE /\ IsNone(memory.last_query)
            /\ IsNone(memory.current_context)
            /\ memory.last_organizations = <<>>
            /\ IsNone(memory.last_spatial_info)

\* the oldest turn has been dropped and the summary is that of the turn kept
C28_Witness ==
    /\ memory.max_history = 1
    /\ Len(call_log) = 2
    /\ call_log[1].query # call_log[2].query
    /\ Len(memory.conversation_history) = 1
    /\ memory.last_query = Some(call_log[2].query)
    /\ memory.last_organizations # <<>>
\* C29: in process_query a query that shares a topic keyword of the fixed
\* vocabulary with the stored previous query and brings no new location
\* phrase is handled as a follow-up (used_memory is true), for every topic
\* word of the vocabulary.
C29_SharedTopicIsFollowup ==
    [][ ( /\ pc = "idle"
          /\ pc' # "idle"
          /\ req'.path = "process_query"
          /\ Truthy(memory.current_context)
          /\ ~IsNone(memory.last_query)
          /\ ExtractTopics(memory.last_query.v) \cap ExtractTopics(req'.user_query) # {}
          /\ ~HasNewLocationContext(req'.user_query)
          /\ ~HasNewLocationContext(NormalizedQuery[req'.user_query]) )
        => req'.use_memory ]_vars
\* C30: the raw_data returned together with a response is the record set
\* produced by that same request, empty when the request produced no
\* records; it is never the record set of an earlier request.
C30_RawDataIsOfThisRequest ==
    [][ (pc # "idle" /\ pc' = "idle") =>
          raw_data(memory') =
              (IF Truthy(outcome'.results) THEN outcome'.results.v ELSE <<>>) ]_vars

====
